---------------------------- MODULE Spec2Model ----------------------------
(***************************************************************************)
(* A model of the leadgen scraper (amitsh06/leadgen):                      *)
(*   src/scraper/maps_scraper.py   GoogleMapsScraper                       *)
(*   src/api/main.py               scrape_task and the job registry        *)
(*                                                                         *)
(* Each component has its own group of variables and its own              *)
(* specification; a specification leaves the other groups at rest.         *)
(*   SpecSetup   GoogleMapsScraper.setup_driver                            *)
(*   SpecScroll  GoogleMapsScraper.scroll_results                          *)
(*   SpecLinks   GoogleMapsScraper.extract_business_links                  *)
(*   SpecDetail  GoogleMapsScraper.extract_business_data                   *)
(*   Spec        scrape_task running scrape_businesses inside the          *)
(*               `with GoogleMapsScraper(...)` block                       *)
(***************************************************************************)
EXTENDS Integers, Sequences, FiniteSets, TLC

VARIABLES
    \* ---- setup_driver (maps_scraper.py 53-167)
    chrome_path,      \* TRUE iff a chrome.exe was found (only on os.name == 'nt')
    version_ok,       \* TRUE iff `chrome --version` gave a text of >= 3 parts
    attempts,         \* the loop counter
    last_error,       \* the error of the last failed attempt
    driver,           \* self.driver: "None" or the strategy that launched it
    wait,             \* TRUE iff self.wait was assigned
    launches,         \* history: every launch tried, in order
    setup_pc,         \* "loop" | "break" | "returned" | "raised"
    setup_error,      \* the message of the exception setup_driver raised
    \* ---- scroll_results (maps_scraper.py 250-367)
    max_results,            \* the argument
    prev_results_count,
    current_results_count,
    scroll_attempts,
    initial_count,          \* history: the count before the first scroll
    scroll_failed,          \* history: a browser call raised
    scroll_pc,              \* "start" | "loop" | "returned" | "raised"
    scroll_ret,             \* the value returned
    \* ---- extract_business_links (maps_scraper.py 369-528)
    page_matches,       \* the page: the selectors that find at least one element
    new_ui_shown,       \* the page: a new-interface indicator is displayed
    new_ui,             \* the result of check_for_new_ui
    business_selectors, \* the selector list, reordered
    sel_idx,            \* position in business_selectors
    queried,            \* history: the selectors queried, in order
    used_selector,
    business_elements,  \* the elements found: the kind of each one's href
    elem_idx,           \* position in business_elements (click-through)
    business_links,     \* the list being built
    links_pc,           \* "start" | "select" | "selected" | "direct" | "click" |
                        \* "after" | "returned" | "raised"
    links_ret,          \* the list returned
    click_log,          \* history of the click-through loop: per entry tried,
                        \* its position and "failed" or where the click led
    \* ---- extract_business_data (maps_scraper.py 530-820)
    detail_url,         \* the argument
    business_data,      \* the dictionary being filled
    field_idx,          \* position in ScalarFields
    detail_error,       \* history: the exception that reached the outer handler
    detail_soft,        \* history: failures handled where they happened
    detail_pc,          \* "nav" | "wait" | "fields" | "hours" | "coords" |
                        \* "returned" | "raised"
    detail_ret,         \* the dictionary returned
    \* ---- scrape_task (main.py 93-238) and scrape_businesses
    \*      (maps_scraper.py 883-983)
    job_max_results,          \* the request
    include_emails,
    include_email_templates,
    jobs_store,               \* the registry entry of the job
    task_pc,                  \* "queued" | "check" | "acquire" | "setup" | "scrape" |
                              \* "enrich" | "templates" | "save" | "complete" |
                              \* "exit" | "handler" | "done"
    task_error,               \* the exception on its way to the handler of line 211
    acquired,                 \* history: the constructor returned a scraper
    quit_count,               \* history: calls of driver.quit()
    sb_pc,                    \* "search" | "scroll" | "links" | "details" | "returned"
    found_links,              \* what extract_business_links returned
    sb_links,                 \* business_links after line 937
    link_idx,                 \* position in sb_links
    detail_calls,             \* history: the addresses given to extract_business_data
    failed_urls,              \* history: the addresses whose extraction failed
    results,                  \* the list of records
    json_saved,               \* the JSON results file exists
    sb_failures,              \* the steps of scrape_businesses that failed
    sb_raised,                \* the message its outer handler caught
    \* ---- the coordinates of extract_business_data (maps_scraper.py 797-811)
    coord_url,        \* the address, a sequence of characters
    coordinates,      \* business_data["coordinates"]
    coord_pc,         \* "start" | "done"
    \* ---- scrape_website_for_emails (email_finder.py 100-185)
    crawl_max_pages,  \* max_pages
    crawl_url,        \* the argument url, a sequence of characters
    urls_to_visit,    \* the frontier, a list
    visited_urls,     \* the set of addresses taken from the frontier
    page_count,       \* the pages counted
    fetched,          \* history: the addresses requested, in order
    all_emails,       \* the set of emails found
    crawl_pc,         \* "loop" | "returned"
    crawl_ret,        \* the list returned
    crawl_events,     \* history: "fetch" per request, "delay" per time.sleep
    discovered,       \* history: the addresses link discovery queued, with the
                      \* page count at that moment
    crawl_error,      \* the exception caught at line 184, "none" without one
    \* ---- enrich_business_data_with_emails and find_business_emails
    \*      (email_finder.py 248-354); texts are sequences of characters
    en_path,          \* "enrich" | "find": the function called
    en_website,       \* business_data.get('website')
    en_name,          \* business_data.get('name')
    en_scraped,       \* what scrape_website_for_emails returned
    en_emails,        \* the list emails (found_emails in find_business_emails)
    en_generated,     \* TRUE iff generated emails were put into the list
    en_record,        \* the keys emails and primary_email of business_data
    en_pc,            \* "start" | "generate" | "assign" | "done"
    \* ---- handle_captcha (maps_scraper.py 203-248)
    cap_idx,          \* position in captcha_selectors
    cap_waits,        \* history: calls of time.sleep(30)
    cap_rechecks,     \* history: re-checks after a wait
    cap_pc,           \* "start" | "loop" | "returned" | "raised"
    cap_ret,          \* the value returned
    \* ---- the registry jobs_store under several jobs (main.py 112-121,
    \*      204-238, 246-277)
    reg_clock,        \* datetime.now() in whole seconds
    reg_id,           \* the identifier given to each job, 0 before submission
    reg_store,        \* identifier -> entry, with the jobs that wrote it
    reg_pc,           \* per job: "new" | "queued" | "running" | "scraping" |
                      \* "found" | "done"
    \* ---- download_job_results (main.py 292-349)
    dl_store,         \* jobs_store: job identifier -> entry
    dl_json,          \* the JSON results file the entry names exists
    dl_job,           \* the job identifier of the request
    dl_format,        \* the file format of the request
    dl_answer,        \* the answer: status code and detail
    dl_pc,            \* "request" | "answered"
    \* ---- the progress written by scrape_task (main.py 114-225)
    pg_n,             \* len(results)
    pg_emails,        \* include_emails
    pg_templates,     \* include_email_templates
    pg_pc,            \* "queued" | "running" | "scraping" | "found" | "emails" |
                      \* "templates" | "template_loop" | "save" | "exit" | "done"
    pg_i,             \* the index of the loop over the records
    pg_entry,         \* status and progress of the entry
    pg_writes         \* history: the progress values written, in order

setupVars == <<chrome_path, version_ok, attempts, last_error, driver, wait,
               launches, setup_pc, setup_error>>

scrollVars == <<max_results, prev_results_count, current_results_count,
                scroll_attempts, initial_count, scroll_failed, scroll_pc,
                scroll_ret>>

linksVars == <<page_matches, new_ui_shown, new_ui, business_selectors, sel_idx,
               queried, used_selector, business_elements, elem_idx,
               business_links, links_pc, links_ret, click_log>>

detailVars == <<detail_url, business_data, field_idx, detail_error, detail_soft,
                detail_pc, detail_ret>>

jobVars == <<job_max_results, include_emails, include_email_templates, jobs_store,
             task_pc, task_error, acquired, quit_count, sb_pc, found_links,
             sb_links, link_idx, detail_calls, failed_urls, results, json_saved,
             sb_failures, sb_raised>>

coordVars == <<coord_url, coordinates, coord_pc>>

crawlVars == <<crawl_max_pages, crawl_url, urls_to_visit, visited_urls, page_count,
               fetched, all_emails, crawl_pc, crawl_ret, crawl_events, discovered,
               crawl_error>>

enrichVars == <<en_path, en_website, en_name, en_scraped, en_emails, en_generated,
                en_record, en_pc>>

captchaVars == <<cap_idx, cap_waits, cap_rechecks, cap_pc, cap_ret>>

registryVars == <<reg_clock, reg_id, reg_store, reg_pc>>

auxVars == <<captchaVars, registryVars>>

downloadVars == <<dl_store, dl_json, dl_job, dl_format, dl_answer, dl_pc>>

progressVars == <<pg_n, pg_emails, pg_templates, pg_pc, pg_i, pg_entry, pg_writes>>

apiVars == <<downloadVars, progressVars>>

utilVars == <<coordVars, crawlVars, enrichVars, auxVars, apiVars>>

vars == <<setupVars, scrollVars, linksVars, detailVars, jobVars, utilVars>>

Min(a, b) == IF a < b THEN a ELSE b

Last(s) == s[Len(s)]

(***************************************************************************)
(* setup_driver                                                            *)
(***************************************************************************)

\* maps_scraper.py 98
max_attempts == 3

\* The texts the code looks for in an error (maps_scraper.py 160,
\* main.py 217-219), and any other error.
ErrorKinds == {"win32", "not_in_path", "other"}

NoError == [strategy |-> "none", kind |-> "none"]

NoMessage == [text |-> "none", cause |-> NoError]

\* What one webdriver.Chrome(...) launch can do.
LaunchOutcomes == {"ok"} \cup ErrorKinds

Launch(n, strategy, out) == [attempt |-> n, strategy |-> strategy, out |-> out]

ErrorOf(strategy, out) == [strategy |-> strategy, kind |-> out]

\* while attempts < max_attempts (line 101)
SetupLoopGuard == setup_pc = "loop" /\ attempts < max_attempts

\* A loop without the `break` of line 150.
PcNoBreak == "loop"

\* Lines 148-150: after a successful launch the loop is left by `break`.
PcAfterLaunchOk == "break"

\* A handler that keeps the first error instead of the last.
KeepFirstError(e) == IF last_error = NoError THEN e ELSE last_error

\* Lines 152-155: except Exception as e: last_error = e; sleep; next iteration.
NextLastError(e) == e

SetupFailed(e) ==
    /\ last_error' = NextLastError(e)
    /\ setup_pc' = "loop"
    /\ UNCHANGED <<driver, wait>>

\* Lines 106-135: first attempt, webdriver_manager. With a Chrome binary found
\* on Windows and a version text, the version-matched driver is tried first and
\* the method returns from inside the loop (line 126); its failure is logged
\* (line 128) and the default fetch is tried.
SetupAttempt1 ==
    /\ SetupLoopGuard
    /\ attempts + 1 = 1
    /\ attempts' = attempts + 1
    /\ \/ /\ chrome_path /\ version_ok
          /\ launches' = Append(launches, Launch(1, "version_matched", "ok"))
          /\ driver' = "version_matched"
          /\ setup_pc' = "returned"
          /\ UNCHANGED <<last_error, wait>>
       \/ \E vm \in (IF chrome_path /\ version_ok THEN ErrorKinds ELSE {"skipped"}) :
          \E out \in LaunchOutcomes :
            /\ launches' = (IF vm = "skipped" THEN launches
                            ELSE Append(launches, Launch(1, "version_matched", vm)))
                           \o <<Launch(1, "default_fetch", out)>>
            /\ IF out = "ok"
               THEN /\ driver' = "default_fetch"
                    /\ setup_pc' = PcAfterLaunchOk
                    /\ UNCHANGED <<last_error, wait>>
               ELSE SetupFailed(ErrorOf("default_fetch", out))
    /\ UNCHANGED <<chrome_path, version_ok, setup_error>>
    /\ UNCHANGED <<scrollVars, linksVars, detailVars, jobVars, utilVars>>

\* Lines 136-138: second attempt, the built-in ChromeDriver.
SetupAttempt2 ==
    /\ SetupLoopGuard
    /\ attempts + 1 = 2
    /\ attempts' = attempts + 1
    /\ \E out \in LaunchOutcomes :
         /\ launches' = Append(launches, Launch(2, "builtin", out))
         /\ IF out = "ok"
            THEN /\ driver' = "builtin"
                 /\ setup_pc' = PcAfterLaunchOk
                 /\ UNCHANGED <<last_error, wait>>
            ELSE SetupFailed(ErrorOf("builtin", out))
    /\ UNCHANGED <<chrome_path, version_ok, setup_error>>
    /\ UNCHANGED <<scrollVars, linksVars, detailVars, jobVars, utilVars>>

\* Lines 139-146: later attempts, the explicit Chrome path if there is one;
\* without one the last error is raised again and caught by line 152.
SetupAttempt3 ==
    /\ SetupLoopGuard
    /\ attempts + 1 \notin {1, 2}
    /\ attempts' = attempts + 1
    /\ IF chrome_path
       THEN \E out \in LaunchOutcomes :
              /\ launches' = Append(launches, Launch(attempts + 1, "explicit_path", out))
              /\ IF out = "ok"
                 THEN /\ driver' = "explicit_path"
                      /\ setup_pc' = PcAfterLaunchOk
                      /\ UNCHANGED <<last_error, wait>>
                 ELSE SetupFailed(ErrorOf("explicit_path", out))
       ELSE /\ launches' = launches
            /\ SetupFailed(IF last_error # NoError THEN last_error
                           ELSE ErrorOf("none", "other"))
    /\ UNCHANGED <<chrome_path, version_ok, setup_error>>
    /\ UNCHANGED <<scrollVars, linksVars, detailVars, jobVars, utilVars>>

\* Lines 158-164: the message of the exception raised when no driver exists.
SetupErrorMessage(e) ==
    IF e.kind = "win32"
    THEN [text |-> "ChromeDriver compatibility issue", cause |-> NoError]
    ELSE [text |-> "Failed to initialize ChromeDriver", cause |-> e]

\* Lines 157-167: after the loop.
SetupAfterLoop ==
    /\ \/ setup_pc = "break"
       \/ setup_pc = "loop" /\ ~(attempts < max_attempts)
    /\ IF driver = "None"
       THEN /\ setup_error' = SetupErrorMessage(last_error)
            /\ setup_pc' = "raised"
            /\ wait' = wait
       ELSE /\ wait' = TRUE
            /\ setup_pc' = "returned"
            /\ setup_error' = setup_error
    /\ UNCHANGED <<chrome_path, version_ok, attempts, last_error, driver, launches>>
    /\ UNCHANGED <<scrollVars, linksVars, detailVars, jobVars, utilVars>>

SetupInit ==
    /\ chrome_path \in BOOLEAN
    /\ version_ok \in BOOLEAN
    /\ attempts = 0
    /\ last_error = NoError
    /\ driver = "None"
    /\ wait = FALSE
    /\ launches = <<>>
    /\ setup_pc = "loop"
    /\ setup_error = NoMessage

SetupIdle ==
    /\ chrome_path = FALSE
    /\ version_ok = FALSE
    /\ attempts = 0
    /\ last_error = NoError
    /\ driver = "None"
    /\ wait = FALSE
    /\ launches = <<>>
    /\ setup_pc = "idle"
    /\ setup_error = NoMessage

SetupNext ==
    \/ SetupAttempt1
    \/ SetupAttempt2
    \/ SetupAttempt3
    \/ SetupAfterLoop


\* The place of a strategy in the fixed order, and the attempt that tries it.
StrategyRank(s) ==
    CASE s = "version_matched" -> 1
      [] s = "default_fetch"   -> 2
      [] s = "builtin"         -> 3
      [] s = "explicit_path"   -> 4
      [] OTHER                 -> 0

StrategyAttempt(s) ==
    CASE s = "version_matched" -> 1
      [] s = "default_fetch"   -> 1
      [] s = "builtin"         -> 2
      [] s = "explicit_path"   -> 3
      [] OTHER                 -> 0

\* The attempts (strategies 1, 2, 3) in which a launch was tried.
AttemptsTried == {launches[i].attempt : i \in 1..Len(launches)}

\* The third strategy needs the local Chrome binary.
availableStrategies == IF chrome_path THEN 3 ELSE 2

\* C2: setup_driver tries the strategies in the order 1, 2, 3 (each launch is
\* made by the attempt of its strategy, later in the order than every launch
\* before it), makes no launch after a successful one, keeps the session of the
\* first successful launch, and never makes more than 3 attempts.
C2_FirstSuccessfulStrategy ==
    /\ attempts <= 3
    /\ \A i \in 1..Len(launches) :
         /\ launches[i].attempt = StrategyAttempt(launches[i].strategy)
         /\ launches[i].attempt <= attempts
         /\ launches[i].out = "ok" => i = Len(launches)
         /\ \A j \in 1..Len(launches) :
              i < j => StrategyRank(launches[i].strategy) < StrategyRank(launches[j].strategy)
    /\ driver # "None" =>
         /\ launches # <<>>
         /\ Last(launches).out = "ok"
         /\ driver = Last(launches).strategy
    /\ driver = "None" => \A i \in 1..Len(launches) : launches[i].out # "ok"
    /\ setup_pc = "returned" => driver # "None"

\* C2 witness: strategy 1 failed, strategy 2 launched the session that is kept.
C2_Witness ==
    /\ setup_pc = "returned"
    /\ driver = "builtin"
    /\ Len(launches) >= 2
    /\ launches[1].out # "ok"

\* The launch whose error is the last underlying one.
LastLaunchError == ErrorOf(Last(launches).strategy, Last(launches).out)

\* C3 as stated: when every strategy fails the error is raised after exactly
\* min(availableStrategies, 3) attempts and carries the last underlying error.
C3_Original ==
    setup_pc = "raised" =>
        /\ Cardinality(AttemptsTried) = Min(availableStrategies, 3)
        /\ setup_error.cause = LastLaunchError

\* C3 amended: when every strategy fails the error is raised only after the
\* loop counter reached 3 and exactly min(availableStrategies, 3) strategies
\* were tried; its message carries the last underlying error, except that a
\* last error reading "not a valid Win32 application" is replaced by the fixed
\* compatibility text.
C3_RaisesAfterAllStrategies ==
    setup_pc = "raised" =>
        /\ driver = "None"
        /\ attempts = 3
        /\ Cardinality(AttemptsTried) = Min(availableStrategies, 3)
        /\ AttemptsTried = 1..Min(availableStrategies, 3)
        /\ IF LastLaunchError.kind = "win32"
           THEN setup_error = [text |-> "ChromeDriver compatibility issue",
                               cause |-> NoError]
           ELSE setup_error = [text |-> "Failed to initialize ChromeDriver",
                               cause |-> LastLaunchError]

\* C3 witness: every strategy failed, with different errors, and the error was
\* raised carrying the last one.
C3_Witness ==
    /\ setup_pc = "raised"
    /\ chrome_path
    /\ Len(launches) >= 3
    /\ launches[1].out # Last(launches).out
    /\ setup_error.cause = LastLaunchError

\* C33: whenever setup_driver returns normally, the driver and the wait helper
\* self.wait are both initialized, on every acquisition path, the
\* version-matched one included.
C33_WaitInitialized ==
    setup_pc = "returned" => (driver # "None" /\ wait)

\* What the code keeps of C33: the wait helper is set on every path that leaves
\* the loop through its break.
C33_WaitAfterBreak ==
    (setup_pc = "returned" /\ driver # "version_matched") => (driver # "None" /\ wait)

(***************************************************************************)
(* scroll_results                                                          *)
(***************************************************************************)

\* The largest number of result elements the page shows.
MaxCount == 11

\* The largest max_results tried.
MaxTarget == 12

\* maps_scraper.py 313
max_scroll_attempts == 10

\* A loop that stops only on the target or on a stall.
ScrollLoopGuardNoCap ==
    /\ current_results_count < max_results
    /\ current_results_count > prev_results_count

\* Line 316: the while condition.
ScrollLoopGuard ==
    /\ current_results_count < max_results
    /\ current_results_count > prev_results_count
    /\ scroll_attempts < max_scroll_attempts

\* Lines 298-306 and 340-346: business_elements is replaced by the elements of
\* the first selector that finds any (n of them), and kept when none does.
Recount(old, n) == IF n > 0 THEN n ELSE old

\* Lines 258-310: the container, the first screenshot and the initial count.
ScrollStart ==
    /\ scroll_pc = "start"
    /\ \E n \in 0..MaxCount :
         /\ current_results_count' = Recount(0, n)
         /\ initial_count' = Recount(0, n)
    /\ prev_results_count' = 0
    /\ scroll_attempts' = 0
    /\ scroll_pc' = "loop"
    /\ UNCHANGED <<max_results, scroll_failed, scroll_ret>>
    /\ UNCHANGED <<setupVars, linksVars, detailVars, jobVars, utilVars>>

\* Lines 316-350: one iteration: scroll, wait, recount.
ScrollIterate ==
    /\ scroll_pc = "loop"
    /\ ScrollLoopGuard
    /\ scroll_attempts' = scroll_attempts + 1
    /\ prev_results_count' = current_results_count
    /\ \E n \in 0..MaxCount :
         current_results_count' = Recount(current_results_count, n)
    /\ UNCHANGED <<max_results, initial_count, scroll_failed, scroll_pc, scroll_ret>>
    /\ UNCHANGED <<setupVars, linksVars, detailVars, jobVars, utilVars>>

\* Lines 352-356: the last screenshot and the return.
ScrollReturn ==
    /\ scroll_pc = "loop"
    /\ ~ScrollLoopGuard
    /\ scroll_ret' = current_results_count
    /\ scroll_pc' = "returned"
    /\ UNCHANGED <<max_results, prev_results_count, current_results_count,
                   scroll_attempts, initial_count, scroll_failed>>
    /\ UNCHANGED <<setupVars, linksVars, detailVars, jobVars, utilVars>>

\* Lines 358-367: a browser call raised (finding the container, a screenshot,
\* both scrolls of an iteration, a recount). The handler takes a screenshot and
\* returns 0; when that screenshot raises too, the exception leaves the method.
ScrollException ==
    /\ \/ scroll_pc = "start" /\ scroll_attempts' = scroll_attempts
       \/ scroll_pc = "loop" /\ ScrollLoopGuard /\ scroll_attempts' = scroll_attempts + 1
       \/ scroll_pc = "loop" /\ ~ScrollLoopGuard /\ scroll_attempts' = scroll_attempts
    /\ scroll_failed' = TRUE
    /\ \/ scroll_pc' = "returned" /\ scroll_ret' = 0
       \/ scroll_pc' = "raised" /\ scroll_ret' = scroll_ret
    /\ UNCHANGED <<max_results, prev_results_count, current_results_count, initial_count>>
    /\ UNCHANGED <<setupVars, linksVars, detailVars, jobVars, utilVars>>

ScrollInit ==
    /\ max_results \in 1..MaxTarget
    /\ prev_results_count = 0
    /\ current_results_count = 0
    /\ scroll_attempts = 0
    /\ initial_count = 0
    /\ scroll_failed = FALSE
    /\ scroll_pc = "start"
    /\ scroll_ret = 0

ScrollIdle ==
    /\ max_results = 1
    /\ prev_results_count = 0
    /\ current_results_count = 0
    /\ scroll_attempts = 0
    /\ initial_count = 0
    /\ scroll_failed = FALSE
    /\ scroll_pc = "idle"
    /\ scroll_ret = 0

ScrollNext ==
    \/ ScrollStart
    \/ ScrollIterate
    \/ ScrollReturn
    \/ ScrollException

ScrollEnded == scroll_pc \in {"returned", "raised"}

\* C4: for every max_results >= 1 and every sequence of counts the page shows,
\* scroll_results ends, after at most 10 iterations, and by a normal return
\* unless a browser call raised; no iteration starts once the count reached the
\* target, did not grow since the previous iteration, or 10 iterations were made.
C4_ScrollHalts ==
    /\ [](scroll_attempts <= 10)
    /\ [](scroll_pc = "raised" => scroll_failed)
    /\ [][(/\ scroll_pc = "loop"
           /\ \/ current_results_count >= max_results
              \/ current_results_count <= prev_results_count
              \/ scroll_attempts >= 10)
          => (scroll_attempts' = scroll_attempts /\ ScrollEnded')]_vars
    /\ <>ScrollEnded

\* C4 witness: the cap stopped the loop: 10 iterations, the count still growing
\* and below the target.
C4_Witness ==
    /\ scroll_pc = "returned"
    /\ ~scroll_failed
    /\ scroll_attempts = 10
    /\ current_results_count < max_results
    /\ current_results_count > prev_results_count

\* C5 as stated: every recount is >= the count of the previous iteration and
\* the value returned is >= the initial count.
C5_CountMonotonic ==
    /\ (scroll_pc \in {"loop", "returned"} /\ scroll_attempts >= 1)
         => current_results_count >= prev_results_count
    /\ scroll_pc = "returned" => scroll_ret >= initial_count

\* C30: whenever the count before scrolling is below max_results, 0 included,
\* scroll_results makes at least one scroll-wait-recount iteration before it
\* returns.
C30_AtLeastOneIteration ==
    (scroll_pc = "returned" /\ ~scroll_failed /\ initial_count < max_results)
        => scroll_attempts >= 1

(***************************************************************************)
(* extract_business_links                                                  *)
(***************************************************************************)

\* The most elements one selector finds.
MaxElems == 2

\* Lines 387-394: the declared selector list.
ClassicSelectors ==
    << "div[role='article']", ".section-result", ".place-result",
       "a[href*='maps/place']", "div.Nv2PK", "a.hfpxzc" >>

\* A reordering that puts the new-interface selectors last.
BusinessSelectorsAppended(ui) ==
    IF ui
    THEN ClassicSelectors \o << "a.hfpxzc", "a[jsaction*='mouseup:placeCard']" >>
    ELSE ClassicSelectors

\* Lines 396-399: with the new interface, insert(0, "a.hfpxzc") and then
\* insert(0, "a[jsaction*='mouseup:placeCard']").
BusinessSelectors(ui) ==
    IF ui
    THEN << "a[jsaction*='mouseup:placeCard']", "a.hfpxzc" >> \o ClassicSelectors
    ELSE ClassicSelectors

AllSelectors == {BusinessSelectors(TRUE)[i] : i \in 1..Len(BusinessSelectors(TRUE))}

\* An address: a detail page ("place"), a search-results page ("search") or
\* any other page; id tells the addresses of different entries apart.
Address(kind, id) == [kind |-> kind, id |-> id]

\* What an element's href can be; "none": the element has none.
HrefKinds == {"place", "search", "other", "none"}

\* Where the browser can be after a click.
UrlKinds == {"place", "search", "other"}

\* Lines 427 and 462: "maps/place" in url or "maps/search" in url.
LinkAccepted(kind) == kind = "place" \/ kind = "search"

\* Line 422: "maps/place" in used_selector or "href" in used_selector or new_ui.
IsDirectLink(selector, ui) == selector = "a[href*='maps/place']" \/ ui

SeqsUpTo(S, n) == UNION {[1..k -> S] : k \in 1..n}

\* Lines 424-431: the hrefs kept by the direct-link strategy.
RECURSIVE DirectLinks(_, _)
DirectLinks(elements, i) ==
    IF i > Len(elements) THEN <<>>
    ELSE (IF elements[i] # "none" /\ LinkAccepted(elements[i])
          THEN <<Address(elements[i], i)>> ELSE <<>>)
         \o DirectLinks(elements, i + 1)

\* Lines 378-399 and 507-528: the screenshot, check_for_new_ui (FALSE when it
\* raises) and the reordering of the selectors.
LinksStart ==
    /\ links_pc = "start"
    /\ \E ui \in {new_ui_shown, FALSE} :
         /\ new_ui' = ui
         /\ business_selectors' = BusinessSelectors(ui)
    /\ sel_idx' = 1
    /\ links_pc' = "select"
    /\ UNCHANGED <<page_matches, new_ui_shown, queried, used_selector,
                   business_elements, elem_idx, business_links, links_ret>>
    /\ UNCHANGED click_log
    /\ UNCHANGED <<setupVars, scrollVars, detailVars, jobVars, utilVars>>

\* Lines 405-413: one selector is queried; the first that finds elements is
\* used and ends the loop.
LinksQuery ==
    /\ links_pc = "select"
    /\ sel_idx <= Len(business_selectors)
    /\ LET selector == business_selectors[sel_idx] IN
         /\ queried' = Append(queried, selector)
         /\ sel_idx' = sel_idx + 1
         /\ IF selector \in page_matches
            THEN /\ \E elems \in SeqsUpTo(IF IsDirectLink(selector, new_ui)
                                          THEN HrefKinds ELSE {"none"}, MaxElems) :
                      business_elements' = elems
                 /\ used_selector' = selector
                 /\ links_pc' = "selected"
            ELSE UNCHANGED <<business_elements, used_selector, links_pc>>
    /\ UNCHANGED <<page_matches, new_ui_shown, new_ui, business_selectors,
                   elem_idx, business_links, links_ret>>
    /\ UNCHANGED click_log
    /\ UNCHANGED <<setupVars, scrollVars, detailVars, jobVars, utilVars>>

\* Lines 415-422: after the loop: nothing found returns the empty list,
\* otherwise the strategy is chosen from the selector that matched.
LinksChoose ==
    /\ \/ links_pc = "selected"
       \/ links_pc = "select" /\ sel_idx > Len(business_selectors)
    /\ IF business_elements = <<>>
       THEN /\ links_ret' = business_links
            /\ links_pc' = "returned"
       ELSE /\ links_pc' = (IF IsDirectLink(used_selector, new_ui)
                            THEN "direct" ELSE "click")
            /\ links_ret' = links_ret
    /\ elem_idx' = 1
    /\ UNCHANGED <<page_matches, new_ui_shown, new_ui, business_selectors, sel_idx,
                   queried, used_selector, business_elements, business_links>>
    /\ UNCHANGED click_log
    /\ UNCHANGED <<setupVars, scrollVars, detailVars, jobVars, utilVars>>

\* Lines 424-431: the direct-link strategy, every element's href.
LinksDirect ==
    /\ links_pc = "direct"
    /\ business_links' = DirectLinks(business_elements, 1)
    /\ links_pc' = "after"
    /\ UNCHANGED <<page_matches, new_ui_shown, new_ui, business_selectors, sel_idx,
                   queried, used_selector, business_elements, elem_idx, links_ret>>
    /\ UNCHANGED click_log
    /\ UNCHANGED <<setupVars, scrollVars, detailVars, jobVars, utilVars>>

\* Lines 453 and 490-492: a failure on one entry ends in "continue".
ClickFailureAborts == "after"

ClickFailurePc == "click"

\* Lines 434-494: the click-through strategy on one element. The click and
\* its script fallback can both fail and the element can be stale (the entry
\* is skipped); after a click the current address is read, which is the
\* search-results address when the click did not navigate; then back and the
\* wait for the results, whose failures are logged.
LinksClick ==
    /\ links_pc = "click"
    /\ elem_idx <= Len(business_elements)
    /\ \/ /\ business_links' = business_links
          /\ click_log' = Append(click_log, [elem |-> elem_idx, outcome |-> "failed"])
          /\ links_pc' = ClickFailurePc
       \/ \E kind \in UrlKinds :
            /\ business_links' = IF LinkAccepted(kind)
                                 THEN Append(business_links, Address(kind, elem_idx))
                                 ELSE business_links
            /\ click_log' = Append(click_log, [elem |-> elem_idx, outcome |-> kind])
            /\ links_pc' = links_pc
    /\ elem_idx' = elem_idx + 1
    /\ UNCHANGED <<page_matches, new_ui_shown, new_ui, business_selectors, sel_idx,
                   queried, used_selector, business_elements, links_ret>>
    /\ UNCHANGED <<setupVars, scrollVars, detailVars, jobVars, utilVars>>

\* Lines 496-505: the last screenshot and the return.
LinksReturn ==
    /\ \/ links_pc = "after"
       \/ links_pc = "click" /\ elem_idx > Len(business_elements)
    /\ links_ret' = business_links
    /\ links_pc' = "returned"
    /\ UNCHANGED <<page_matches, new_ui_shown, new_ui, business_selectors, sel_idx,
                   queried, used_selector, business_elements, elem_idx, business_links>>
    /\ UNCHANGED click_log
    /\ UNCHANGED <<setupVars, scrollVars, detailVars, jobVars, utilVars>>

\* Lines 500-505: a browser call outside the per-element handlers raised (a
\* screenshot, find_elements). The handler takes a screenshot and the list
\* built so far is returned; when that screenshot raises too, the exception
\* leaves the method.
LinksException ==
    /\ links_pc \in {"start", "select", "after"}
    /\ \/ links_pc' = "returned" /\ links_ret' = business_links
       \/ links_pc' = "raised" /\ links_ret' = links_ret
    /\ UNCHANGED <<page_matches, new_ui_shown, new_ui, business_selectors, sel_idx,
                   queried, used_selector, business_elements, elem_idx, business_links>>
    /\ UNCHANGED click_log
    /\ UNCHANGED <<setupVars, scrollVars, detailVars, jobVars, utilVars>>

LinksInit ==
    /\ page_matches \in SUBSET AllSelectors
    /\ new_ui_shown \in BOOLEAN
    /\ new_ui = FALSE
    /\ business_selectors = <<>>
    /\ sel_idx = 1
    /\ queried = <<>>
    /\ used_selector = ""
    /\ business_elements = <<>>
    /\ elem_idx = 1
    /\ business_links = <<>>
    /\ links_pc = "start"
    /\ links_ret = <<>>
    /\ click_log = <<>>

LinksIdle ==
    /\ page_matches = {}
    /\ new_ui_shown = FALSE
    /\ new_ui = FALSE
    /\ business_selectors = <<>>
    /\ sel_idx = 1
    /\ queried = <<>>
    /\ used_selector = ""
    /\ business_elements = <<>>
    /\ elem_idx = 1
    /\ business_links = <<>>
    /\ links_pc = "idle"
    /\ links_ret = <<>>
    /\ click_log = <<>>

LinksNext ==
    \/ LinksStart
    \/ LinksQuery
    \/ LinksChoose
    \/ LinksDirect
    \/ LinksClick
    \/ LinksReturn
    \/ LinksException

\* An address of a single business's view.
IsDetailPageAddress(a) == a.kind = "place"

\* C7 as stated: every address extract_business_links collects or returns is a
\* detail-page address, under both strategies.
C7_OnlyDetailAddresses ==
    /\ \A i \in 1..Len(business_links) : IsDetailPageAddress(business_links[i])
    /\ \A i \in 1..Len(links_ret) : IsDetailPageAddress(links_ret[i])

\* The list after the reordering for the new interface.
NewUiOrder ==
    << "a[jsaction*='mouseup:placeCard']", "a.hfpxzc", "div[role='article']",
       ".section-result", ".place-result", "a[href*='maps/place']", "div.Nv2PK",
       "a.hfpxzc" >>

DeclaredOrder == IF new_ui THEN NewUiOrder ELSE ClassicSelectors

\* C8: the selector used is the first of the declared order (new-interface
\* selectors first when the new interface was detected) that finds elements:
\* everything queried is a prefix of that order, the selector used is the last
\* one queried, no selector queried before it found anything, and a page on
\* which no selector finds anything gives the empty list.
C8_FirstMatchingSelector ==
    /\ Len(queried) <= Len(DeclaredOrder)
    /\ \A i \in 1..Len(queried) : queried[i] = DeclaredOrder[i]
    /\ used_selector # "" =>
         /\ used_selector = Last(queried)
         /\ used_selector \in page_matches
         /\ \A i \in 1..(Len(queried) - 1) : queried[i] \notin page_matches
    /\ used_selector = "" => \A i \in 1..Len(queried) : queried[i] \notin page_matches
    /\ links_pc \in {"direct", "click", "after"} => used_selector # ""
    /\ (links_pc = "returned" /\ \A i \in 1..Len(DeclaredOrder) :
                                    DeclaredOrder[i] \notin page_matches)
         => links_ret = <<>>

\* C8 witness: with the new interface detected, a page on which both a new and
\* a classic selector find elements: the new one is used, and the classic one,
\* which the classic order would have used, is not queried.
C8_Witness ==
    /\ links_pc = "returned"
    /\ new_ui
    /\ used_selector = "a.hfpxzc"
    /\ "div[role='article']" \in page_matches
    /\ Len(queried) = 2
    /\ links_ret # <<>>

\* The links of the entries of the log whose click led to an accepted address.
RECURSIVE LoggedLinks(_, _)
LoggedLinks(log, i) ==
    IF i > Len(log) THEN <<>>
    ELSE (IF log[i].outcome # "failed" /\ LinkAccepted(log[i].outcome)
          THEN <<Address(log[i].outcome, log[i].elem)>> ELSE <<>>)
         \o LoggedLinks(log, i + 1)

ClickThroughReturned ==
    /\ links_pc = "returned"
    /\ business_elements # <<>>
    /\ ~IsDirectLink(used_selector, new_ui)

\* C29: in the click-through strategy a failed click or a stale element on one
\* entry does not abort the extraction: when the method returns, every entry
\* has been tried exactly once, in order, and the list returned has every link
\* collected, those collected before a failure included.
C29_FailureDoesNotAbort ==
    ClickThroughReturned =>
        /\ Len(click_log) = Len(business_elements)
        /\ \A i \in 1..Len(click_log) : click_log[i].elem = i
        /\ links_ret = LoggedLinks(click_log, 1)

\* C29 witness: the first entry gave a link, the second failed, and the link
\* of the first is in the list returned.
C29_Witness ==
    /\ ClickThroughReturned
    /\ Len(click_log) = 2
    /\ click_log[1].outcome = "place"
    /\ click_log[2].outcome = "failed"
    /\ links_ret = <<Address("place", 1)>>

\* A failure on the first entry, a link from the second.
C29_WitnessContinues ==
    /\ ClickThroughReturned
    /\ Len(click_log) = 2
    /\ click_log[1].outcome = "failed"
    /\ click_log[2].outcome = "place"
    /\ links_ret = <<Address("place", 2)>>

(***************************************************************************)
(* extract_business_data                                                   *)
(***************************************************************************)

\* The addresses tried: one per kind and with or without coordinate markers.
DetailUrls ==
    {[kind |-> k, id |-> 1, markers |-> m] :
        k \in {"place", "search"}, m \in BOOLEAN}

\* Lines 577-588: the keys with a text value, in the order they are extracted.
ScalarFields ==
    << "name", "address", "phone", "website", "category", "rating", "reviews_count" >>

\* Lines 586-587: the keys with a dictionary value.
DictFields == {"hours", "coordinates"}

EmptyDict == [x \in {} |-> ""]

\* Exceptions of the browser other than NoSuchElementException and
\* TimeoutException.
DetailErrors == {"WebDriverException", "StaleElementReferenceException"}

\* Lines 577-588.
InitialBusinessData(url) ==
    [k \in {"url"} \cup {ScalarFields[i] : i \in 1..Len(ScalarFields)} \cup DictFields |->
        IF k = "url" THEN url
        ELSE IF k \in DictFields THEN EmptyDict
        ELSE ""]

\* A clean-up that keeps every key.
KeptAll(data, k) == TRUE

\* Line 814: v or isinstance(v, dict).
Kept(data, k) == k \in DictFields \/ k = "url" \/ data[k] # ""

\* Lines 813-816: the empty values are dropped.
NonEmptyData(data) == [k \in {k \in DOMAIN data : Kept(data, k)} |-> data[k]]

\* Line 820.
ErrorRecord(url, e) == [url |-> url, error |-> e]

\* A handler that catches only the element and timeout misses.
DetailErrorPropagates == "raised"

\* Line 818: except Exception: every exception ends in a return.
DetailErrorPc == "returned"

\* Lines 818-820: the outer handler.
DetailFail(e) ==
    /\ detail_error' = e
    /\ detail_pc' = DetailErrorPc
    /\ detail_ret' = ErrorRecord(detail_url, e)
    /\ UNCHANGED <<detail_url, business_data, field_idx, detail_soft>>

\* Lines 541-546: navigation, the pause and the screenshot.
DetailNavigate ==
    /\ detail_pc = "nav"
    /\ \/ /\ detail_pc' = "wait"
          /\ UNCHANGED <<detail_url, business_data, field_idx, detail_error,
                         detail_soft, detail_ret>>
       \/ \E e \in DetailErrors : DetailFail(e)
    /\ UNCHANGED <<setupVars, scrollVars, linksVars, jobVars, utilVars>>

\* Lines 549-588: the wait for a name selector: found, timed out on every
\* selector, or failed otherwise (line 573); extraction goes on in each case
\* with the initial dictionary.
DetailWait ==
    /\ detail_pc = "wait"
    /\ \E w \in {"found", "timeout", "error"} :
         detail_soft' = IF w = "found" THEN detail_soft ELSE detail_soft \cup {"wait"}
    /\ business_data' = InitialBusinessData(detail_url)
    /\ field_idx' = 1
    /\ detail_pc' = "fields"
    /\ UNCHANGED <<detail_url, detail_error, detail_ret>>
    /\ UNCHANGED <<setupVars, scrollVars, linksVars, jobVars, utilVars>>

\* Lines 590-746: one field's selector chain: a value, nothing (every selector
\* misses or gives an empty text), or an exception other than
\* NoSuchElementException, which reaches the outer handler.
DetailField ==
    /\ detail_pc = "fields"
    /\ field_idx <= Len(ScalarFields)
    /\ \/ /\ \E v \in {"", "text"} :
               /\ business_data' = [business_data EXCEPT ![ScalarFields[field_idx]] = v]
               /\ detail_soft' = IF v = "" THEN detail_soft \cup {ScalarFields[field_idx]}
                                 ELSE detail_soft
          /\ field_idx' = field_idx + 1
          /\ UNCHANGED <<detail_url, detail_error, detail_pc, detail_ret>>
       \/ \E e \in DetailErrors : DetailFail(e)
    /\ UNCHANGED <<setupVars, scrollVars, linksVars, jobVars, utilVars>>

\* Lines 748-795: the hours; every exception is logged here.
DetailHours ==
    /\ detail_pc = "fields"
    /\ field_idx > Len(ScalarFields)
    /\ \E h \in {"none", "found", "error"} :
         /\ business_data' = [business_data EXCEPT !["hours"] =
                IF h = "found" THEN [d \in {"monday"} |-> "9 am-5 pm"] ELSE EmptyDict]
         /\ detail_soft' = IF h = "error" THEN detail_soft \cup {"hours"}
                           ELSE IF h = "none" THEN detail_soft \cup {"hours_miss"}
                           ELSE detail_soft
    /\ detail_pc' = "coords"
    /\ UNCHANGED <<detail_url, field_idx, detail_error, detail_ret>>
    /\ UNCHANGED <<setupVars, scrollVars, linksVars, jobVars, utilVars>>

\* Lines 797-816: the coordinates from the address, the clean-up and the return.
DetailReturn ==
    /\ detail_pc = "coords"
    /\ LET data == [business_data EXCEPT !["coordinates"] =
                      IF detail_url.markers
                      THEN [c \in {"latitude", "longitude"} |-> "number"]
                      ELSE EmptyDict]
       IN /\ business_data' = data
          /\ detail_ret' = NonEmptyData(data)
    /\ detail_pc' = "returned"
    /\ UNCHANGED <<detail_url, field_idx, detail_error, detail_soft>>
    /\ UNCHANGED <<setupVars, scrollVars, linksVars, jobVars, utilVars>>

DetailInit ==
    /\ detail_url \in DetailUrls
    /\ business_data = EmptyDict
    /\ field_idx = 1
    /\ detail_error = "none"
    /\ detail_soft = {}
    /\ detail_pc = "nav"
    /\ detail_ret = EmptyDict

DetailIdle ==
    /\ detail_url = [kind |-> "place", id |-> 1, markers |-> FALSE]
    /\ business_data = EmptyDict
    /\ field_idx = 1
    /\ detail_error = "none"
    /\ detail_soft = {}
    /\ detail_pc = "idle"
    /\ detail_ret = EmptyDict

DetailNext ==
    \/ DetailNavigate
    \/ DetailWait
    \/ DetailField
    \/ DetailHours
    \/ DetailReturn

NoFieldMatched ==
    /\ {ScalarFields[i] : i \in 1..Len(ScalarFields)} \subseteq detail_soft
    /\ detail_soft \cap {"hours", "hours_miss"} # {}

\* C15: on a page where no field selector matches, for an address without
\* coordinate markers, extract_business_data returns without raising the record
\* with exactly the keys url, hours and coordinates, the last two empty; and a
\* field without a match does not stop the extraction: a return without error
\* comes after every field was tried.
C15_RecordWithoutFields ==
    /\ detail_pc # "raised"
    /\ (detail_pc = "returned" /\ detail_error = "none") =>
          /\ field_idx = Len(ScalarFields) + 1
          /\ (NoFieldMatched /\ ~detail_url.markers) =>
                detail_ret = [url |-> detail_url, hours |-> EmptyDict,
                              coordinates |-> EmptyDict]

\* Nothing matched on the page of an address without markers, and the record
\* was returned.
C15_Witness ==
    /\ detail_pc = "returned"
    /\ detail_error = "none"
    /\ NoFieldMatched
    /\ ~detail_url.markers
    /\ DOMAIN detail_ret = {"url", "hours", "coordinates"}

(***************************************************************************)
(* scrape_task and scrape_businesses                                       *)
(***************************************************************************)

\* The most addresses extract_business_links returns to a job.
MaxLinks == 2

\* The largest max_results of a job.
MaxJobResults == 2

\* dict.get(k) with the falsy default.
DictGet(rec, k) == IF k \in DOMAIN rec THEN rec[k] ELSE ""

\* A check that takes every non-empty dictionary.
HasAnyData(rec) == DOMAIN rec # {}

\* maps_scraper.py 946: business_data and (business_data.get("name") or
\* business_data.get("address")).
HasBasicData(rec) ==
    /\ DOMAIN rec # {}
    /\ (DictGet(rec, "name") # "" \/ DictGet(rec, "address") # "")

\* A slice that keeps the whole list.
NoTruncate(links, n) == links

\* maps_scraper.py 937: business_links[:max_results], for max_results >= 0.
Truncate(links, n) == SubSeq(links, 1, Min(Len(links), n))

\* What extract_business_data can return for an address: a record with a name
\* and a website, one with an address only, one with neither, the error record.
DetailOutcomes(url) ==
    { NonEmptyData([InitialBusinessData(url) EXCEPT !["name"] = "text",
                                                     !["website"] = "text"]),
      NonEmptyData([InitialBusinessData(url) EXCEPT !["address"] = "text"]),
      NonEmptyData(InitialBusinessData(url)),
      ErrorRecord(url, "WebDriverException") }

\* What extract_business_links can return: addresses of detail pages and of
\* search-results pages, told apart by their place in the list.
LinkLists ==
    {<<>>} \cup UNION {{[i \in 1..n |-> Address(kinds[i], i)] :
                           kinds \in [1..n -> {"place", "search"}]} : n \in 1..MaxLinks}

\* maps_scraper.py 964-969 and 976-981: the record of a job without results.
SyntheticRecord(e) == [error |-> e, query |-> "query", location |-> "location"]

\* main.py 264-271 and 114-121.
JobEntry(status) ==
    [status |-> status, message |-> "none", completed_at |-> "None",
     results_file |-> "None"]

\* main.py 217-220: the texts that are replaced in the message.
FriendlyMessage(e) ==
    IF e \in {"Failed to initialize ChromeDriver", "ChromeDriver compatibility issue"}
    THEN "Chrome browser or ChromeDriver issue"
    ELSE e

\* A scraper closed only at the end of the body, outside try/finally.
PcSkipExit == "handler"

\* main.py 148, maps_scraper.py 993-994: an exception in the body of the with
\* statement runs __exit__ before it reaches the handler.
PcAfterBodyException == "exit"

\* main.py 112-121: the task starts: the entry is running.
TaskStart ==
    /\ task_pc = "queued"
    /\ jobs_store' = JobEntry("running")
    /\ task_pc' = "check"
    /\ UNCHANGED <<job_max_results, include_emails, include_email_templates,
                   task_error, acquired, quit_count, sb_pc, found_links, sb_links,
                   link_idx, detail_calls, failed_urls, results, json_saved,
                   sb_failures, sb_raised>>
    /\ UNCHANGED <<setupVars, scrollVars, linksVars, detailVars, utilVars>>

\* An exception that leaves the task without reaching a handler.
PcUncaught == "done"

\* main.py 122 and 211: the body of the task is under try/except Exception.
PcAfterCheckFailure == "handler"

\* main.py 123-145: on Windows the Chrome binary must exist.
TaskCheckChrome ==
    /\ task_pc = "check"
    /\ \/ task_pc' = "acquire" /\ task_error' = task_error
       \/ task_pc' = PcAfterCheckFailure
          /\ task_error' = "Failed to detect Chrome browser"
    /\ UNCHANGED <<job_max_results, include_emails, include_email_templates,
                   jobs_store, acquired, quit_count, sb_pc, found_links, sb_links,
                   link_idx, detail_calls, failed_urls, results, json_saved,
                   sb_failures, sb_raised>>
    /\ UNCHANGED <<setupVars, scrollVars, linksVars, detailVars, utilVars>>

\* main.py 148, maps_scraper.py 49-51: the constructor calls setup_driver.
TaskAcquire ==
    /\ task_pc = "acquire"
    /\ task_pc' = "setup"
    /\ \E cp \in BOOLEAN : \E vo \in (IF cp THEN BOOLEAN ELSE {FALSE}) :
         /\ chrome_path' = cp
         /\ version_ok' = vo
    /\ attempts' = 0
    /\ last_error' = NoError
    /\ driver' = "None"
    /\ launches' = <<>>
    /\ setup_pc' = "loop"
    /\ UNCHANGED <<wait, setup_error>>
    /\ UNCHANGED <<job_max_results, include_emails, include_email_templates,
                   jobs_store, task_error, acquired, quit_count, sb_pc, found_links,
                   sb_links, link_idx, detail_calls, failed_urls, results, json_saved,
                   sb_failures, sb_raised>>
    /\ UNCHANGED <<scrollVars, linksVars, detailVars, utilVars>>

\* A task that goes on without a scraper.
PcIgnoreAcquireFailure == "enrich"

\* main.py 148 and 211: the exception of the constructor leaves the try block.
PcAfterAcquireFailure == "handler"

\* main.py 148-151: setup_driver ended. When it returned the body of the with
\* statement starts; when it raised there is no scraper and no __exit__. The
\* locals of setup_driver are gone.
TaskAcquired ==
    /\ task_pc = "setup"
    /\ setup_pc \in {"returned", "raised"}
    /\ IF setup_pc = "returned"
       THEN /\ acquired' = TRUE
            /\ task_pc' = "scrape"
            /\ sb_pc' = "search"
            /\ task_error' = task_error
       ELSE /\ task_error' = setup_error.text
            /\ task_pc' = PcAfterAcquireFailure
            /\ UNCHANGED <<acquired, sb_pc>>
    /\ chrome_path' = FALSE
    /\ version_ok' = FALSE
    /\ attempts' = 0
    /\ last_error' = NoError
    /\ launches' = <<>>
    /\ setup_pc' = "idle"
    /\ UNCHANGED <<driver, wait, setup_error>>
    /\ UNCHANGED <<job_max_results, include_emails, include_email_templates,
                   jobs_store, quit_count, found_links, sb_links, link_idx,
                   detail_calls, failed_urls, results, json_saved,
                   sb_failures, sb_raised>>
    /\ UNCHANGED <<scrollVars, linksVars, detailVars, utilVars>>

\* The steps of scrape_businesses that can fail.
FailureSteps == {"search", "paging", "fallback", "links", "links_file", "detail"}

\* str(e) of the exception of a failed step.
FailureMessage(step) ==
    CASE step = "search" -> "search: WebDriverException"
      [] step = "paging" -> "paging: WebDriverException"
      [] step = "fallback" -> "fallback: WebDriverException"
      [] step = "links" -> "links: WebDriverException"
      [] step = "links_file" -> "links file: OSError"
      [] step = "detail" -> "WebDriverException"

\* A handler that raises again.
SbExceptPropagates == "raised"

\* maps_scraper.py 973 and 983: the handler falls through to return results.
SbExceptPc == "returned"

\* maps_scraper.py 973-983: the outer handler of scrape_businesses: one record
\* with the message, and the list is returned (main.py 153-157).
SbExcept(step) ==
    /\ results' = Append(results, SyntheticRecord(FailureMessage(step)))
    /\ sb_failures' = sb_failures \cup {step}
    /\ sb_raised' = FailureMessage(step)
    /\ sb_pc' = SbExceptPc
    /\ task_pc' = "enrich"

\* maps_scraper.py 897-900: search; the navigation of search (838) is outside
\* its try and its failure reaches the outer handler.
SbSearch ==
    /\ task_pc = "scrape"
    /\ sb_pc = "search"
    /\ \/ sb_pc' = "scroll" /\ UNCHANGED <<results, task_pc, sb_failures, sb_raised>>
       \/ SbExcept("search")
    /\ UNCHANGED <<job_max_results, include_emails, include_email_templates,
                   jobs_store, task_error, acquired, quit_count, found_links,
                   sb_links, link_idx, detail_calls, failed_urls, json_saved>>
    /\ UNCHANGED <<setupVars, scrollVars, linksVars, detailVars, utilVars>>

\* maps_scraper.py 903-923: scroll_results, and with a count of 0 the fallback
\* search. scroll_results logs a failure and returns 0 (358-367), or raises
\* when the screenshot of its handler fails; a failure of the fallback is
\* logged (922-923).
SbScroll ==
    /\ task_pc = "scrape"
    /\ sb_pc = "scroll"
    /\ \/ /\ \E failed \in SUBSET {"paging", "fallback"} :
                sb_failures' = sb_failures \cup failed
          /\ sb_pc' = "links"
          /\ UNCHANGED <<results, task_pc, sb_raised>>
       \/ SbExcept("paging")
    /\ UNCHANGED <<job_max_results, include_emails, include_email_templates,
                   jobs_store, task_error, acquired, quit_count, found_links,
                   sb_links, link_idx, detail_calls, failed_urls, json_saved>>
    /\ UNCHANGED <<setupVars, scrollVars, linksVars, detailVars, utilVars>>

\* maps_scraper.py 926-937: extract_business_links, the links file and the
\* limit. extract_business_links logs a failure and returns the links it has
\* (499-505), or raises when the screenshot of its handler fails; the file
\* can fail to open.
SbLinks ==
    /\ task_pc = "scrape"
    /\ sb_pc = "links"
    /\ \/ \E links \in LinkLists :
            /\ found_links' = links
            /\ \/ /\ sb_links' = Truncate(links, job_max_results)
                  /\ link_idx' = 1
                  /\ sb_pc' = "details"
                  /\ \E failed \in SUBSET {"links"} :
                        sb_failures' = sb_failures \cup failed
                  /\ UNCHANGED <<results, task_pc, sb_raised>>
               \/ /\ links # <<>>
                  /\ SbExcept("links_file")
                  /\ UNCHANGED <<sb_links, link_idx>>
       \/ /\ SbExcept("links")
          /\ UNCHANGED <<found_links, sb_links, link_idx>>
    /\ UNCHANGED <<job_max_results, include_emails, include_email_templates,
                   jobs_store, task_error, acquired, quit_count, detail_calls,
                   failed_urls, json_saved>>
    /\ UNCHANGED <<setupVars, scrollVars, linksVars, detailVars, utilVars>>

\* maps_scraper.py 940-958: one address of the batch.
SbDetail ==
    /\ task_pc = "scrape"
    /\ sb_pc = "details"
    /\ link_idx <= Len(sb_links)
    /\ LET url == sb_links[link_idx] IN
       \E rec \in DetailOutcomes(url) :
         /\ detail_calls' = Append(detail_calls, url)
         /\ failed_urls' = IF "error" \in DOMAIN rec THEN failed_urls \cup {url}
                           ELSE failed_urls
         /\ sb_failures' = IF "error" \in DOMAIN rec THEN sb_failures \cup {"detail"}
                           ELSE sb_failures
         /\ results' = IF HasBasicData(rec) THEN Append(results, rec) ELSE results
    /\ link_idx' = link_idx + 1
    /\ UNCHANGED <<job_max_results, include_emails, include_email_templates,
                   jobs_store, task_pc, task_error, acquired, quit_count, sb_pc,
                   found_links, sb_links, json_saved, sb_raised>>
    /\ UNCHANGED <<setupVars, scrollVars, linksVars, detailVars, utilVars>>

\* A batch that always gets the record.
AlwaysSynthetic(res) == TRUE

\* maps_scraper.py 961: if not results.
NeedsSynthetic(res) == res = <<>>

\* maps_scraper.py 960-971 and 983: after the batch.
SbFinish ==
    /\ task_pc = "scrape"
    /\ sb_pc = "details"
    /\ link_idx > Len(sb_links)
    /\ results' = IF NeedsSynthetic(results)
                  THEN Append(results, SyntheticRecord("No businesses found"))
                  ELSE results
    /\ sb_pc' = "returned"
    /\ task_pc' = "enrich"
    /\ UNCHANGED <<job_max_results, include_emails, include_email_templates,
                   jobs_store, task_error, acquired, quit_count, found_links,
                   sb_links, link_idx, detail_calls, failed_urls, json_saved,
                   sb_failures, sb_raised>>
    /\ UNCHANGED <<setupVars, scrollVars, linksVars, detailVars, utilVars>>

\* email_finder.py 296-354: a record comes back with emails and primary_email.
WithEmails(rec, found) ==
    [k \in DOMAIN rec \cup {"emails", "primary_email"} |->
        IF k = "emails" THEN (IF found THEN <<"info@site">> ELSE <<>>)
        ELSE IF k = "primary_email" THEN (IF found THEN "info@site" ELSE "None")
        ELSE rec[k]]

\* email_generator.py 212-228.
WithTemplate(rec) ==
    [k \in DOMAIN rec \cup {"email_template"} |->
        IF k = "email_template" THEN "text" ELSE rec[k]]

\* main.py 159-179: the emails of every record that has a website.
TaskEnrichEmails ==
    /\ task_pc = "enrich"
    /\ IF include_emails /\ results # <<>>
       THEN \E found \in [1..Len(results) -> BOOLEAN] :
              results' = [i \in 1..Len(results) |->
                            IF DictGet(results[i], "website") # ""
                            THEN WithEmails(results[i], found[i])
                            ELSE results[i]]
       ELSE results' = results
    /\ task_pc' = "templates"
    /\ UNCHANGED <<job_max_results, include_emails, include_email_templates,
                   jobs_store, task_error, acquired, quit_count, sb_pc, found_links,
                   sb_links, link_idx, detail_calls, failed_urls, json_saved,
                   sb_failures, sb_raised>>
    /\ UNCHANGED <<setupVars, scrollVars, linksVars, detailVars, utilVars>>

\* main.py 181-193: the templates; generate_email_template is not guarded and
\* can raise at any record.
TaskTemplates ==
    /\ task_pc = "templates"
    /\ IF include_email_templates /\ results # <<>>
       THEN \E done \in 0..Len(results) :
              /\ results' = [i \in 1..Len(results) |->
                               IF i <= done THEN WithTemplate(results[i])
                               ELSE results[i]]
              /\ IF done = Len(results)
                 THEN task_pc' = "save" /\ task_error' = task_error
                 ELSE task_pc' = PcAfterBodyException /\ task_error' = "KeyError"
       ELSE /\ results' = results
            /\ task_pc' = "save"
            /\ task_error' = task_error
    /\ UNCHANGED <<job_max_results, include_emails, include_email_templates,
                   jobs_store, acquired, quit_count, sb_pc, found_links,
                   sb_links, link_idx, detail_calls, failed_urls, json_saved,
                   sb_failures, sb_raised>>
    /\ UNCHANGED <<setupVars, scrollVars, linksVars, detailVars, utilVars>>

\* main.py 195-202 and 360-425: the files; save_results_to_file logs its
\* failures and returns None.
TaskSave ==
    /\ task_pc = "save"
    /\ json_saved' \in BOOLEAN
    /\ task_pc' = "complete"
    /\ UNCHANGED <<job_max_results, include_emails, include_email_templates,
                   jobs_store, task_error, acquired, quit_count, sb_pc, found_links,
                   sb_links, link_idx, detail_calls, failed_urls, results,
                   sb_failures, sb_raised>>
    /\ UNCHANGED <<setupVars, scrollVars, linksVars, detailVars, utilVars>>

\* main.py 204-209: the entry is completed, still inside the with statement.
TaskComplete ==
    /\ task_pc = "complete"
    /\ jobs_store' = [jobs_store EXCEPT !.status = "completed",
                                        !.message = "Completed scraping",
                                        !.completed_at = "time",
                                        !.results_file = "file"]
    /\ task_pc' = "exit"
    /\ UNCHANGED <<job_max_results, include_emails, include_email_templates,
                   task_error, acquired, quit_count, sb_pc, found_links, sb_links,
                   link_idx, detail_calls, failed_urls, results, json_saved,
                   sb_failures, sb_raised>>
    /\ UNCHANGED <<setupVars, scrollVars, linksVars, detailVars, utilVars>>

\* maps_scraper.py 985-994: __exit__ calls close, which quits the driver; quit
\* can raise, and that exception reaches the handler of main.py 211.
TaskExit ==
    /\ task_pc = "exit"
    /\ IF driver # "None"
       THEN /\ quit_count' = quit_count + 1
            /\ \/ task_error' = task_error
               \/ task_error' = "WebDriverException"
       ELSE UNCHANGED <<quit_count, task_error>>
    /\ task_pc' = IF task_error' # "none" THEN "handler" ELSE "done"
    /\ UNCHANGED <<job_max_results, include_emails, include_email_templates,
                   jobs_store, acquired, sb_pc, found_links, sb_links, link_idx,
                   detail_calls, failed_urls, results, json_saved,
                   sb_failures, sb_raised>>
    /\ UNCHANGED <<setupVars, scrollVars, linksVars, detailVars, utilVars>>

\* main.py 211-225: the entry is failed.
TaskHandler ==
    /\ task_pc = "handler"
    /\ jobs_store' = [jobs_store EXCEPT !.status = "failed",
                                        !.message = FriendlyMessage(task_error),
                                        !.completed_at = "time"]
    /\ task_pc' = "done"
    /\ UNCHANGED <<job_max_results, include_emails, include_email_templates,
                   task_error, acquired, quit_count, sb_pc, found_links, sb_links,
                   link_idx, detail_calls, failed_urls, results, json_saved,
                   sb_failures, sb_raised>>
    /\ UNCHANGED <<setupVars, scrollVars, linksVars, detailVars, utilVars>>

\* main.py 246-277: start_scraper queued the job.
JobInit ==
    /\ job_max_results \in 1..MaxJobResults
    /\ include_emails \in BOOLEAN
    /\ include_email_templates \in BOOLEAN
    /\ jobs_store = JobEntry("queued")
    /\ task_pc = "queued"
    /\ task_error = "none"
    /\ acquired = FALSE
    /\ quit_count = 0
    /\ sb_pc = "idle"
    /\ found_links = <<>>
    /\ sb_links = <<>>
    /\ link_idx = 1
    /\ detail_calls = <<>>
    /\ failed_urls = {}
    /\ results = <<>>
    /\ json_saved = FALSE
    /\ sb_failures = {}
    /\ sb_raised = "none"

JobIdle ==
    /\ job_max_results = 1
    /\ include_emails = FALSE
    /\ include_email_templates = FALSE
    /\ jobs_store = JobEntry("none")
    /\ task_pc = "idle"
    /\ task_error = "none"
    /\ acquired = FALSE
    /\ quit_count = 0
    /\ sb_pc = "idle"
    /\ found_links = <<>>
    /\ sb_links = <<>>
    /\ link_idx = 1
    /\ detail_calls = <<>>
    /\ failed_urls = {}
    /\ results = <<>>
    /\ json_saved = FALSE
    /\ sb_failures = {}
    /\ sb_raised = "none"

Next ==
    \/ TaskStart
    \/ TaskCheckChrome
    \/ TaskAcquire
    \/ SetupAttempt1
    \/ SetupAttempt2
    \/ SetupAttempt3
    \/ SetupAfterLoop
    \/ TaskAcquired
    \/ SbSearch
    \/ SbScroll
    \/ SbLinks
    \/ SbDetail
    \/ SbFinish
    \/ TaskEnrichEmails
    \/ TaskTemplates
    \/ TaskSave
    \/ TaskComplete
    \/ TaskExit
    \/ TaskHandler

\* C1: a job that acquired the browser session quits the driver exactly once
\* before it ends, whether the body completed, returned only an error record
\* or raised; the driver is never quit twice, and never without a session.
C1_SessionReleasedOnce ==
    /\ quit_count <= 1
    /\ (~acquired) => quit_count = 0
    /\ (task_pc = "done" /\ acquired) => quit_count = 1
    /\ (task_pc \in {"scrape", "enrich", "templates", "save", "complete", "exit"})
          => (acquired /\ quit_count = 0)

\* A job whose body raised after the acquisition has ended, failed, with the
\* driver quit once.
C1_Witness ==
    /\ task_pc = "done"
    /\ acquired
    /\ task_error = "KeyError"
    /\ jobs_store.status = "failed"
    /\ quit_count = 1

\* C6: a job with max_results >= 1 hands at most max_results addresses to
\* extract_business_data, these are the first addresses that
\* extract_business_links found, and the job has at most max_results records.
C6_AtMostMaxResults ==
    /\ Len(detail_calls) <= job_max_results
    /\ Len(detail_calls) <= Len(found_links)
    /\ detail_calls = SubSeq(found_links, 1, Len(detail_calls))
    /\ Len(results) <= job_max_results

\* More addresses were found than the limit, and the job ended with as many
\* detail extractions and records as the limit.
C6_Witness ==
    /\ task_pc = "done"
    /\ Len(found_links) > job_max_results
    /\ Len(detail_calls) = job_max_results
    /\ Len(results) = job_max_results

\* The record extract_business_data returns for a failed address.
IsErrorRecordFor(rec, url) ==
    /\ "error" \in DOMAIN rec
    /\ "url" \in DOMAIN rec
    /\ rec["url"] = url

\* C10 as stated: when scrape_businesses has returned, every address whose
\* extraction failed has its error record in the results and every address of
\* the batch was processed.
C10_Original ==
    (sb_pc = "returned" /\ failed_urls # {}) =>
        /\ detail_calls = sb_links
        /\ \A u \in failed_urls :
              \E i \in 1..Len(results) : IsErrorRecordFor(results[i], u)

\* C10: when scrape_businesses has returned after the extraction of some
\* address failed, every address of the batch was processed and no record of
\* the results is the error record of an address: the record has neither name
\* nor address and is skipped.
C10_ErrorRecordDroppedBatchContinues ==
    (sb_pc = "returned" /\ failed_urls # {}) =>
        /\ detail_calls = sb_links
        /\ \A u \in failed_urls :
              \A i \in 1..Len(results) : ~IsErrorRecordFor(results[i], u)

\* The extraction of the first address failed, and the record of the second
\* address is in the results.
C10_Witness ==
    /\ sb_pc = "returned"
    /\ Len(sb_links) >= 2
    /\ sb_links[1] \in failed_urls
    /\ sb_links[2] \notin failed_urls
    /\ Len(results) >= 1
    /\ "url" \in DOMAIN results[1]
    /\ results[1]["url"] = sb_links[2]

\* A record of scrape_businesses that reports a failure of the whole job.
IsSynthetic(rec) == "error" \in DOMAIN rec /\ "query" \in DOMAIN rec

\* The records of the results that report a failure of the whole job.
SyntheticIndexes == {i \in 1..Len(results) : IsSynthetic(results[i])}

\* scrape_businesses has just returned its list, which the task has not yet
\* enriched.
SbReturned == sb_pc = "returned" /\ task_pc = "enrich"

\* C11: every record of the list scrape_businesses returned that is not the
\* synthetic error record has a non-empty name or a non-empty address; a detail
\* record with neither is dropped.
C11_ValidRecords ==
    /\ \A i \in 1..Len(results) :
          IsSynthetic(results[i]) \/
             (DictGet(results[i], "name") # "" \/ DictGet(results[i], "address") # "")
    /\ Len(results) <= Len(detail_calls) + 1

\* Two addresses were extracted without error, one record had neither name nor
\* address, and only the other is in the returned list.
C11_Witness ==
    /\ SbReturned
    /\ Len(detail_calls) = 2
    /\ failed_urls = {}
    /\ Len(results) = 1
    /\ ~IsSynthetic(results[1])

\* C12: the list scrape_businesses returns has at most one synthetic error
\* record, and has one only when it has no other record.
C12_OneSyntheticRecord ==
    /\ Cardinality(SyntheticIndexes) <= 1
    /\ SyntheticIndexes # {} => Len(results) = 1

\* Every extraction of the batch gave nothing and the returned list is the one
\* synthetic record.
C12_Witness ==
    /\ SbReturned
    /\ Len(detail_calls) = 2
    /\ sb_raised = "none"
    /\ results = <<SyntheticRecord("No businesses found")>>

\* C13 as stated: scrape_businesses never raises, and when any of its steps
\* failed the returned list has exactly one error record, which carries the
\* message of a failure.
C13_Original ==
    /\ sb_pc # "raised"
    /\ (SbReturned /\ sb_failures # {}) =>
          /\ Cardinality({i \in 1..Len(results) : "error" \in DOMAIN results[i]}) = 1
          /\ \E i \in 1..Len(results) : \E step \in sb_failures :
                /\ "error" \in DOMAIN results[i]
                /\ results[i]["error"] = FailureMessage(step)

\* C13: scrape_businesses never raises. A failure that reaches its outer
\* handler ends in a returned list whose only record carries the message of
\* that failure; a failure that is logged where it happens (paging, fallback
\* search, link extraction, detail extraction) leaves no record with its
\* message: the list has the valid records, or the one record
\* "No businesses found".
C13_NeverRaises ==
    /\ sb_pc # "raised"
    /\ SbReturned =>
          IF sb_raised # "none"
          THEN /\ results = <<SyntheticRecord(sb_raised)>>
               /\ \E step \in sb_failures : sb_raised = FailureMessage(step)
          ELSE \A i \in 1..Len(results) :
                  "error" \in DOMAIN results[i] =>
                      results = <<SyntheticRecord("No businesses found")>>

\* The links file could not be written and the list carries the message.
C13_Witness ==
    /\ SbReturned
    /\ sb_failures = {"links_file"}
    /\ Len(found_links) >= 1
    /\ results = <<SyntheticRecord(FailureMessage("links_file"))>>

\* setup_driver raised for this job.
AcquisitionFailed == setup_error # NoMessage

\* C14: when the acquisition of the session fails, no step of the scrape, the
\* enrichment or the export runs and no results file is recorded, and the job
\* ends with status failed, a message and a completion time.
C14_AcquisitionFailureFailsJob ==
    AcquisitionFailed =>
        /\ task_pc \in {"setup", "handler", "done"}
        /\ ~acquired
        /\ sb_pc = "idle"
        /\ detail_calls = <<>>
        /\ results = <<>>
        /\ ~json_saved
        /\ quit_count = 0
        /\ jobs_store.results_file = "None"
        /\ jobs_store.status # "completed"
        /\ task_pc = "done" =>
              /\ jobs_store.status = "failed"
              /\ jobs_store.message = FriendlyMessage(task_error)
              /\ jobs_store.message # "none"
              /\ jobs_store.completed_at # "None"

\* A job whose acquisition failed has ended.
C14_Witness ==
    /\ AcquisitionFailed
    /\ task_pc = "done"
    /\ jobs_store.status = "failed"
    /\ task_error = "Failed to initialize ChromeDriver"

\* C34: every job whose background task starts eventually reaches the status
\* completed or failed, every browser and network call returning or timing
\* out: the loops of the task are bounded.
C34_JobTerminates ==
    (jobs_store.status = "running") ~> (jobs_store.status \in {"completed", "failed"})

\* C34 witness: a task that went through a retry of the acquisition and the
\* loop over two addresses and ended completed.
C34_Witness ==
    /\ task_pc = "done"
    /\ jobs_store.status = "completed"
    /\ driver = "builtin"
    /\ Len(detail_calls) = 2

\* The order of the statuses the spec gives a job.
StatusStep(s, t) ==
    \/ s = t
    \/ s = "queued" /\ t = "running"
    \/ s = "running" /\ t \in {"completed", "failed"}

\* C31: the status of a job only moves queued -> running -> completed or
\* failed, and completed and failed are terminal: once the status is one of
\* them, status and results_file never change again, whatever happens
\* afterwards in the job, a failure while the session is released included.
C31_TerminalStatus ==
    [][/\ StatusStep(jobs_store.status, jobs_store'.status)
       /\ jobs_store.status \in {"completed", "failed"} =>
             /\ jobs_store'.status = jobs_store.status
             /\ jobs_store'.results_file = jobs_store.results_file]_vars

\* What the code keeps of C31: failed is terminal, and the only step out of
\* completed is the one to failed.
C31_FailedIsTerminal ==
    [][/\ jobs_store.status = "failed" => jobs_store' = jobs_store
       /\ jobs_store.status = "completed" =>
             jobs_store'.status \in {"completed", "failed"}]_vars

\* main.py 305: file_format.lower().
FormatLower(file_format) ==
    CASE file_format = "JSON" -> "json"
      [] file_format = "Csv" -> "csv"
      [] OTHER -> file_format

\* main.py 305: the formats of a download.
SupportedFormats == {"json", "csv", "excel"}

\* main.py 312-313: only a completed job has results to download.
AnyStatusDownloads(status) == TRUE

StatusDownloads(status) == status = "completed"

\* main.py 304-349: the answer of download_job_results.  known: the job is in
\* jobs_store; json_exists: the JSON file the entry names can be opened;
\* generated: save_results_to_file returned a path for the other formats.
DownloadAnswer(file_format, known, entry, json_exists, generated) ==
    IF FormatLower(file_format) \notin SupportedFormats
    THEN [code |-> 400, detail |-> "Unsupported file format"]
    ELSE IF ~known
    THEN [code |-> 404, detail |-> "Job not found"]
    ELSE IF ~StatusDownloads(entry.status)
    THEN [code |-> 400, detail |-> "Job has not completed"]
    ELSE IF entry.results_file = "None"
    THEN [code |-> 404, detail |-> "No results found"]
    ELSE IF ~json_exists
    THEN [code |-> 404, detail |-> "Results file not found"]
    ELSE IF FormatLower(file_format) # "json" /\ ~generated
    THEN [code |-> 500, detail |-> "Failed to generate file"]
    ELSE [code |-> 200, detail |-> FormatLower(file_format)]

\* C32: whenever the status of a job is completed, its results_file is set and
\* the JSON results file it names was written, so a JSON download of a
\* completed job never answers "not found".
C32_CompletedHasResults ==
    jobs_store.status = "completed" =>
        /\ jobs_store.results_file # "None"
        /\ json_saved
        /\ DownloadAnswer("json", TRUE, jobs_store, json_saved, TRUE).code # 404

\* What the code keeps of C32: a completed job has its results_file set.
C32_CompletedNamesFile ==
    jobs_store.status = "completed" => jobs_store.results_file # "None"

(***************************************************************************)
(* The coordinates of extract_business_data                                *)
(***************************************************************************)

\* The most pieces an address is made of.
MaxChunks == 5

\* The markers, as sequences of characters.
Marker3d == <<"!", "3", "d">>
Marker4d == <<"!", "4", "d">>

\* The pieces addresses are made of: the markers, the separator and digits.
Chunks == {Marker3d, Marker4d, <<"!">>, <<"1">>, <<"2">>}

RECURSIVE Concat(_)
Concat(pieces) ==
    IF pieces = <<>> THEN <<>> ELSE Head(pieces) \o Concat(Tail(pieces))

\* The addresses tried.
CoordUrls == {<<>>} \cup {Concat(pieces) : pieces \in SeqsUpTo(Chunks, MaxChunks)}

\* The positions where sep starts in s.
Occurrences(s, sep) ==
    {i \in 1..(Len(s) - Len(sep) + 1) : SubSeq(s, i, i + Len(sep) - 1) = sep}

\* str.find, 1-based, 0 when sep is not in s.
IndexOf(s, sep) ==
    LET occ == Occurrences(s, sep)
    IN IF occ = {} THEN 0 ELSE CHOOSE i \in occ : \A j \in occ : i <= j

\* str.split(sep) for a non-empty sep.
RECURSIVE Split(_, _)
Split(s, sep) ==
    LET i == IndexOf(s, sep)
    IN IF i = 0 THEN <<s>>
       ELSE <<SubSeq(s, 1, i - 1)>> \o Split(SubSeq(s, i + Len(sep), Len(s)), sep)

\* maps_scraper.py 799-808: url.split('!3d'), url_parts[1].split('!4d'),
\* lat_lng[1].split('!')[0] (Python indexes from 0).
Coordinates(url) ==
    LET url_parts == Split(url, Marker3d)
    IN IF Len(url_parts) > 1
       THEN LET lat_lng == Split(url_parts[2], Marker4d)
            IN IF Len(lat_lng) > 1
               THEN [latitude |-> lat_lng[1],
                     longitude |-> Split(lat_lng[2], <<"!">>)[1]]
               ELSE EmptyDict
       ELSE EmptyDict

\* maps_scraper.py 797-811: the coordinates of one address.
CoordsExtract ==
    /\ coord_pc = "start"
    /\ coordinates' = Coordinates(coord_url)
    /\ coord_pc' = "done"
    /\ UNCHANGED coord_url
    /\ UNCHANGED <<setupVars, scrollVars, linksVars, detailVars, jobVars, crawlVars,
                   enrichVars, auxVars, apiVars>>

CoordsInit ==
    /\ coord_url \in CoordUrls
    /\ coordinates = EmptyDict
    /\ coord_pc = "start"

CoordsIdle ==
    /\ coord_url = <<>>
    /\ coordinates = EmptyDict
    /\ coord_pc = "idle"


\* ...!3d40.7128!4d-74.0060!16...
ExampleUrl ==
    <<"x", "!", "3", "d", "4", "0", ".", "7", "1", "2", "8", "!", "4", "d",
      "-", "7", "4", ".", "0", "0", "6", "0", "!", "1", "6", "x">>

ExampleCoordinates ==
    [latitude |-> <<"4", "0", ".", "7", "1", "2", "8">>,
     longitude |-> <<"-", "7", "4", ".", "0", "0", "6", "0">>]

\* The text of s before its first "!".
BeforeSeparator(s) ==
    LET i == IndexOf(s, <<"!">>) IN IF i = 0 THEN s ELSE SubSeq(s, 1, i - 1)

\* The positions of a !3d and of the first !4d that follows it.
MarkerPairs(url) ==
    {pq \in Occurrences(url, Marker3d) \X Occurrences(url, Marker4d) :
        /\ pq[2] >= pq[1] + 3
        /\ \A q \in Occurrences(url, Marker4d) : ~(pq[1] + 3 <= q /\ q < pq[2])}

\* C16: the coordinates come from the address alone: when !3d or !4d is absent
\* they stay empty; when a !3d is followed by a !4d the latitude is the text
\* between the two and the longitude the text from the !4d to the next "!";
\* the address ...!3d40.7128!4d-74.0060!16... gives 40.7128 and -74.0060.
C16_CoordinatesFromMarkers ==
    /\ Coordinates(ExampleUrl) = ExampleCoordinates
    /\ coord_pc = "done" =>
          /\ (Occurrences(coord_url, Marker3d) = {} \/ Occurrences(coord_url, Marker4d) = {})
                => coordinates = EmptyDict
          /\ MarkerPairs(coord_url) # {} =>
                \E pq \in MarkerPairs(coord_url) :
                   coordinates =
                      [latitude |-> SubSeq(coord_url, pq[1] + 3, pq[2] - 1),
                       longitude |-> BeforeSeparator(
                                        SubSeq(coord_url, pq[2] + 3, Len(coord_url)))]

(***************************************************************************)
(* EmailFinder: the emails of a business                                   *)
(***************************************************************************)

\* The characters of the texts, in the order of their code points.
CodePoints ==
    <<" ", "(", ")", ".", "/", "9", ":", "@", "A", "I", "X", "Z",
      "a", "b", "c", "d", "e", "f", "g", "h", "i", "j", "k", "l", "m",
      "n", "o", "p", "q", "r", "s", "t", "u", "v", "w", "x", "y", "z">>

CharCode(c) == CHOOSE i \in 1..Len(CodePoints) : CodePoints[i] = c

\* str.lower on one character.
LowerChar(c) ==
    CASE c = "A" -> "a" [] c = "I" -> "i" [] c = "X" -> "x" [] c = "Z" -> "z"
      [] OTHER -> c

\* str.lower.
Lower(s) == [i \in 1..Len(s) |-> LowerChar(s[i])]

\* [a-zA-Z0-9]
IsAlnum(c) == CharCode(c) = CharCode("9") \/ CharCode(c) >= CharCode("A")

\* re.sub(r'[^a-zA-Z0-9]', '', s)
RECURSIVE OnlyAlnum(_)
OnlyAlnum(s) ==
    IF s = <<>> THEN <<>>
    ELSE (IF IsAlnum(Head(s)) THEN <<Head(s)>> ELSE <<>>) \o OnlyAlnum(Tail(s))

\* str.startswith.
StartsWith(s, prefix) ==
    Len(s) >= Len(prefix) /\ SubSeq(s, 1, Len(prefix)) = prefix

\* re.sub of a pattern anchored at the start that matches one of the prefixes.
RemovePrefix(s, prefixes) ==
    IF \E pre \in prefixes : StartsWith(s, pre)
    THEN LET pre == CHOOSE x \in prefixes : StartsWith(s, x)
         IN SubSeq(s, Len(pre) + 1, Len(s))
    ELSE s

\* The comparison of Python strings.
RECURSIVE LexLess(_, _)
LexLess(a, b) ==
    IF b = <<>> THEN FALSE
    ELSE IF a = <<>> THEN TRUE
    ELSE IF Head(a) = Head(b) THEN LexLess(Tail(a), Tail(b))
    ELSE CharCode(Head(a)) < CharCode(Head(b))

\* email_finder.py 33-37.
common_prefixes ==
    <<<<"c", "o", "n", "t", "a", "c", "t">>,
      <<"i", "n", "f", "o">>,
      <<"h", "e", "l", "l", "o">>,
      <<"s", "u", "p", "p", "o", "r", "t">>,
      <<"a", "d", "m", "i", "n">>,
      <<"s", "a", "l", "e", "s">>,
      <<"h", "e", "l", "p">>,
      <<"o", "f", "f", "i", "c", "e">>,
      <<"m", "a", "i", "l">>,
      <<"t", "e", "a", "m">>,
      <<"b", "u", "s", "i", "n", "e", "s", "s">>,
      <<"i", "n", "q", "u", "i", "r", "i", "e", "s">>,
      <<"f", "e", "e", "d", "b", "a", "c", "k">>,
      <<"c", "u", "s", "t", "o", "m", "e", "r">>,
      <<"s", "e", "r", "v", "i", "c", "e">>,
      <<"g", "e", "n", "e", "r", "a", "l">>,
      <<"m", "a", "n", "a", "g", "e", "r">>>>

\* A sort that gives the first places to every common prefix.
all_prefixes == common_prefixes

\* email_finder.py 331.
priority_prefixes ==
    <<<<"c", "o", "n", "t", "a", "c", "t">>,
      <<"i", "n", "f", "o">>,
      <<"h", "e", "l", "l", "o">>,
      <<"s", "u", "p", "p", "o", "r", "t">>,
      <<"a", "d", "m", "i", "n">>,
      <<"s", "a", "l", "e", "s">>,
      <<"h", "e", "l", "l", "o">>>>

\* email_finder.py 49-61: extract_domain_from_url for a non-empty url without
\* blanks around it: lower, ^https?:// and ^www\. removed, the text before
\* the first "/".
ExtractDomain(url) ==
    LET lowered == Lower(url)
        no_scheme == RemovePrefix(lowered, {<<"h", "t", "t", "p", "s", ":", "/", "/">>,
                                            <<"h", "t", "t", "p", ":", "/", "/">>})
        no_www == RemovePrefix(no_scheme, {<<"w", "w", "w", ".">>})
    IN Split(no_www, <<"/">>)[1]

\* The value None of Python, which is no text.
None == <<"None">>

\* email_finder.py 273-283 (" (generated)").
GeneratedTag == <<" ", "(", "g", "e", "n", "e", "r", "a", "t", "e", "d", ")">>

\* email_finder.py 283: f"{email} (generated)".
Tagged(email) == email \o GeneratedTag

\* email_finder.py 202-217: generate_common_emails without an owner name.
GenerateCommonEmails(domain, business_name) ==
    IF domain = <<>> THEN <<>>
    ELSE LET prefix_emails == [i \in 1..Len(common_prefixes) |->
                                  common_prefixes[i] \o <<"@">> \o domain]
             clean_name == OnlyAlnum(Lower(business_name))
             domain_parts == Split(domain, <<".">>)
             tld == domain_parts[Len(domain_parts)]
         IN IF business_name # <<>> /\ clean_name # <<>>
            THEN prefix_emails \o
                   <<clean_name \o <<"@">> \o domain,
                     <<"i", "n", "f", "o", "@">> \o clean_name \o <<".">> \o tld>>
            ELSE prefix_emails

\* email_finder.py 334: email.split('@')[0].lower().
EmailPrefix(email) == Lower(Split(email, <<"@">>)[1])

\* email_finder.py 336: 0 for an email with a priority prefix, else 1.
SortFlag(email) ==
    IF \E i \in 1..Len(priority_prefixes) : priority_prefixes[i] = EmailPrefix(email)
    THEN 0 ELSE 1

\* email_finder.py 333-336: the order of the keys (flag, email).
EmailSortKeyLess(a, b) ==
    \/ SortFlag(a) < SortFlag(b)
    \/ SortFlag(a) = SortFlag(b) /\ LexLess(a, b)

\* email_finder.py 338: sorted(emails, key=email_sort_key).
SortedEmails(emails) == SortSeq(emails, EmailSortKeyLess)

\* The websites tried: none, a full address, a bare domain in capitals, and a
\* scheme alone.
Websites == {<<>>, <<"h", "t", "t", "p", "s", ":", "/", "/", "w", "w", "w", ".", "x", ".", "c", "o", "m", "/", "a">>,
             <<"X", ".", "c", "o", "m">>, <<"h", "t", "t", "p", "s", ":", "/", "/">>}

\* The business names tried.
BusinessNames == {<<>>, <<"I", "n", "f", "o">>, <<"X">>, <<"Z", "e", "t", "a", " ", "9">>}

\* The emails the website can show (find_emails_on_page returns them in lower
\* case).
ScrapedUniverse ==
    {<<"z", "e", "t", "a", "@", "x", ".", "c", "o", "m">>,
     <<"i", "n", "f", "o", "@", "x", ".", "c", "o", "m">>,
     <<"c", "o", "n", "t", "a", "c", "t", "@", "x", ".", "c", "o", "m">>,
     <<"h", "e", "l", "p", "@", "x", ".", "c", "o", "m">>}

\* The lists without repetition of the elements of a set: list(all_emails).
ListsOf(S) ==
    {l \in [1..Cardinality(S) -> S] : \A i, j \in 1..Cardinality(S) : l[i] = l[j] => i = j}

\* What scrape_website_for_emails can return: list(all_emails).
ScrapedLists == UNION {ListsOf(S) : S \in SUBSET ScrapedUniverse}

\* A fallback that does not look at the emails found.
FallbackAlways(emails) == TRUE

\* email_finder.py 275 and 324: if not found_emails, if not emails.
FallbackNeeded(emails) == emails = <<>>

\* email_finder.py 259-272 and 302-317: the website and its emails.
EnrichScrape ==
    /\ en_pc = "start"
    /\ IF en_website = <<>> \/ (en_path = "find" /\ ExtractDomain(en_website) = <<>>)
       THEN /\ en_pc' = IF en_path = "find" THEN "done" ELSE "assign"
            /\ UNCHANGED <<en_scraped, en_emails>>
       ELSE /\ \E scraped_emails \in ScrapedLists :
                 /\ en_scraped' = scraped_emails
                 /\ en_emails' = scraped_emails
            /\ en_pc' = "generate"
    /\ UNCHANGED <<en_path, en_website, en_name, en_generated, en_record>>
    /\ UNCHANGED <<setupVars, scrollVars, linksVars, detailVars, jobVars, coordVars,
                   crawlVars, auxVars, apiVars>>

\* email_finder.py 274-283 (find_business_emails tags what it generates and
\* returns the list) and 319-326 (enrich_business_data_with_emails does not).
EnrichGenerate ==
    /\ en_pc = "generate"
    /\ LET domain == ExtractDomain(en_website)
           generated_emails == GenerateCommonEmails(domain, en_name)
       IN IF en_path = "find"
          THEN /\ en_emails' = IF FallbackNeeded(en_emails)
                               THEN en_emails \o [i \in 1..Len(generated_emails) |->
                                                     Tagged(generated_emails[i])]
                               ELSE en_emails
               /\ en_generated' = (FallbackNeeded(en_emails) /\ generated_emails # <<>>)
               /\ en_pc' = "done"
          ELSE /\ en_emails' = IF domain # <<>> /\ FallbackNeeded(en_emails)
                                  /\ generated_emails # <<>>
                               THEN en_emails \o generated_emails
                               ELSE en_emails
               /\ en_generated' = (domain # <<>> /\ FallbackNeeded(en_emails)
                                     /\ generated_emails # <<>>)
               /\ en_pc' = "assign"
    /\ UNCHANGED <<en_path, en_website, en_name, en_scraped, en_record>>
    /\ UNCHANGED <<setupVars, scrollVars, linksVars, detailVars, jobVars, coordVars,
                   crawlVars, auxVars, apiVars>>

\* email_finder.py 328-345: the keys emails and primary_email.
EnrichAssign ==
    /\ en_pc = "assign"
    /\ en_record' = IF en_emails # <<>>
                    THEN [emails |-> SortedEmails(en_emails),
                          primary_email |-> SortedEmails(en_emails)[1]]
                    ELSE [emails |-> <<>>, primary_email |-> None]
    /\ en_pc' = "done"
    /\ UNCHANGED <<en_path, en_website, en_name, en_scraped, en_emails, en_generated>>
    /\ UNCHANGED <<setupVars, scrollVars, linksVars, detailVars, jobVars, coordVars,
                   crawlVars, auxVars, apiVars>>

EnrichInit ==
    /\ en_path \in {"enrich", "find"}
    /\ en_website \in Websites
    /\ en_name \in BusinessNames
    /\ en_scraped = <<>>
    /\ en_emails = <<>>
    /\ en_generated = FALSE
    /\ en_record = EmptyDict
    /\ en_pc = "start"

EnrichIdle ==
    /\ en_path = "enrich"
    /\ en_website = <<>>
    /\ en_name = <<>>
    /\ en_scraped = <<>>
    /\ en_emails = <<>>
    /\ en_generated = FALSE
    /\ en_record = EmptyDict
    /\ en_pc = "idle"

EnrichNext == EnrichScrape \/ EnrichGenerate \/ EnrichAssign

\* The role prefixes that come first.
RolePrefixes ==
    {<<"c", "o", "n", "t", "a", "c", "t">>,
     <<"i", "n", "f", "o">>,
     <<"h", "e", "l", "l", "o">>,
     <<"s", "u", "p", "p", "o", "r", "t">>,
     <<"a", "d", "m", "i", "n">>,
     <<"s", "a", "l", "e", "s">>}

\* The local part of an email is one of the role prefixes.
HasRolePrefix(email) == Split(email, <<"@">>)[1] \in RolePrefixes

\* enrich_business_data_with_emails has returned.
Enriched == en_pc = "done" /\ en_path = "enrich"

\* C18: after enrichment the emails with a local part among contact, info,
\* hello, support, admin, sales come before all others, each of the two groups
\* is in lexicographic order, the emails are those found, and primary_email is
\* the first of them (None when there is none); zeta@x.com, info@x.com,
\* contact@x.com become contact@x.com, info@x.com, zeta@x.com.
C18_SortedEmails ==
    /\ SortedEmails(<<<<"z", "e", "t", "a", "@", "x", ".", "c", "o", "m">>, <<"i", "n", "f", "o", "@", "x", ".", "c", "o", "m">>,
                      <<"c", "o", "n", "t", "a", "c", "t", "@", "x", ".", "c", "o", "m">>>>)
          = <<<<"c", "o", "n", "t", "a", "c", "t", "@", "x", ".", "c", "o", "m">>,
              <<"i", "n", "f", "o", "@", "x", ".", "c", "o", "m">>, <<"z", "e", "t", "a", "@", "x", ".", "c", "o", "m">>>>
    /\ Enriched =>
         LET emails == en_record["emails"] IN
           /\ Len(emails) = Len(en_emails)
           /\ {emails[i] : i \in 1..Len(emails)} = {en_emails[i] : i \in 1..Len(en_emails)}
           /\ \A i, j \in 1..Len(emails) :
                 i < j =>
                   /\ HasRolePrefix(emails[j]) => HasRolePrefix(emails[i])
                   /\ (HasRolePrefix(emails[i]) <=> HasRolePrefix(emails[j])) =>
                         (emails[i] = emails[j] \/ LexLess(emails[i], emails[j]))
           /\ en_record["primary_email"] = IF emails = <<>> THEN None ELSE emails[1]

\* The website showed zeta@, help@ and info@ in that order and the record has
\* info@ first.
C18_Witness ==
    /\ Enriched
    /\ en_scraped = <<<<"z", "e", "t", "a", "@", "x", ".", "c", "o", "m">>,
                      <<"h", "e", "l", "p", "@", "x", ".", "c", "o", "m">>,
                      <<"i", "n", "f", "o", "@", "x", ".", "c", "o", "m">>>>
    /\ en_record["emails"] = <<<<"i", "n", "f", "o", "@", "x", ".", "c", "o", "m">>,
                               <<"h", "e", "l", "p", "@", "x", ".", "c", "o", "m">>,
                               <<"z", "e", "t", "a", "@", "x", ".", "c", "o", "m">>>>
    /\ en_record["primary_email"] = <<"i", "n", "f", "o", "@", "x", ".", "c", "o", "m">>

\* C19: the emails of a record never have the same address twice, whether they
\* were scraped from the website or generated from the prefixes and the
\* business name.
C19_UniqueEmails ==
    Enriched =>
        \A i, j \in 1..Len(en_record["emails"]) :
            en_record["emails"][i] = en_record["emails"][j] => i = j

\* An email ends with the tag of a generated one.
IsTagged(email) ==
    /\ Len(email) > Len(GeneratedTag)
    /\ SubSeq(email, Len(email) - Len(GeneratedTag) + 1, Len(email)) = GeneratedTag

\* C20: every generated address is tagged as unverified, in the list that
\* find_business_emails returns and in the emails that
\* enrich_business_data_with_emails, which the job calls, puts into the record.
C20_GeneratedTagged ==
    (en_pc = "done" /\ en_generated) =>
        /\ \A i \in 1..Len(en_emails) : IsTagged(en_emails[i])
        /\ en_path = "enrich" =>
              \A i \in 1..Len(en_record["emails"]) : IsTagged(en_record["emails"][i])

\* The elements of a list.
Elements(l) == {l[i] : i \in 1..Len(l)}

\* C27: generated addresses are used only when the crawl gave no email: the
\* list never mixes scraped and generated addresses, and when an address was
\* scraped the emails are exactly the scraped ones, in the list
\* find_business_emails returns and in the record.
C27_FallbackOnlyWithoutScraped ==
    en_pc = "done" =>
        /\ en_generated => en_scraped = <<>>
        /\ en_scraped # <<>> =>
              /\ Elements(en_emails) = Elements(en_scraped)
              /\ Len(en_emails) = Len(en_scraped)
              /\ en_path = "enrich" =>
                    /\ Elements(en_record["emails"]) = Elements(en_scraped)
                    /\ Len(en_record["emails"]) = Len(en_scraped)

\* The website showed two emails and the record has these two and no other.
C27_Witness ==
    /\ Enriched
    /\ Len(en_scraped) = 2
    /\ ~en_generated
    /\ Len(en_record["emails"]) = 2
    /\ ExtractDomain(en_website) # <<>>

\* The records extract_business_data can return for an address: every choice of
\* empty and non-empty fields.
CleanedRecords ==
    {NonEmptyData([k \in DOMAIN InitialBusinessData("url") |->
                      IF k \in DictFields THEN EmptyDict
                      ELSE IF k = "url" THEN "url"
                      ELSE IF k \in filled THEN "text" ELSE ""]) :
        filled \in SUBSET {"name", "phone", "website"}}

\* C22: a record a job emits has no empty emails and no empty scalar field:
\* the empty values are left out, and hours and coordinates are always there.
\* The job enriches the records that have a website.
C22_NoEmptyValues ==
    /\ \A rec \in CleanedRecords :
          /\ {"hours", "coordinates"} \subseteq DOMAIN rec
          /\ \A k \in DOMAIN rec \ DictFields : rec[k] # ""
    /\ (Enriched /\ en_website # <<>>) =>
          /\ en_record["emails"] # <<>>
          /\ en_record["primary_email"] # None

(***************************************************************************)
(* EmailFinder.scrape_website_for_emails                                   *)
(***************************************************************************)

\* The largest max_pages.
MaxPages == 3

\* The most anchors of the first page.
MaxPageLinks == 3

Https == <<"h", "t", "t", "p", "s", ":", "/", "/">>

Http == <<"h", "t", "t", "p", ":", "/", "/">>

\* url.startswith(('http://', 'https://'))
HasScheme(url) == StartsWith(url, Http) \/ StartsWith(url, Https)

\* email_finder.py 116-117: the scheme is put before an address without one.
NormalizeUrl(url) == IF HasScheme(url) THEN url ELSE Https \o url

\* sub in s
Contains(s, sub) == Occurrences(s, sub) # {}

\* The websites the crawl is started with: without and with a scheme.
RootUrls == {<<"x", ".", "c", "o", "m">>,
             <<"h", "t", "t", "p", "s", ":", "/", "/", "x", ".", "c", "o", "m">>}

\* The href of the anchors a page can have: relative, bare, absolute on the
\* domain, absolute on a domain that contains the root domain, absolute on an
\* unrelated domain, and one that is no contact or about link.  The text of
\* the anchors has neither word.
Hrefs == {<<"/", "c", "o", "n", "t", "a", "c", "t">>,
          <<"a", "b", "o", "u", "t">>,
          <<"h", "t", "t", "p", "s", ":", "/", "/", "x", ".", "c", "o", "m", "/", "a", "b", "o", "u", "t">>,
          <<"h", "t", "t", "p", "s", ":", "/", "/", "n", "o", "t", "x", ".", "c", "o", "m", "/", "c", "o", "n", "t", "a", "c", "t">>,
          <<"h", "t", "t", "p", "s", ":", "/", "/", "y", ".", "o", "r", "g", "/", "a", "b", "o", "u", "t">>,
          <<"/", "b", "l", "o", "g">>}

\* email_finder.py 158-163: 'contact' or 'about' in href.lower().
IsContactAnchor(href) ==
    \/ Contains(Lower(href), <<"c", "o", "n", "t", "a", "c", "t">>)
    \/ Contains(Lower(href), <<"a", "b", "o", "u", "t">>)

\* The local contact_url before its first assignment.
Unbound == <<"unbound">>

\* email_finder.py 164-172: the address of an anchor.  An absolute href is
\* taken when the root domain is in its domain; otherwise contact_url is not
\* assigned and keeps the value the previous anchor gave it.
ContactUrl(href, domain, contact_url) ==
    IF StartsWith(href, <<"/">>) THEN Https \o domain \o href
    ELSE IF HasScheme(href)
         THEN (IF Contains(ExtractDomain(href), domain) THEN href ELSE contact_url)
         ELSE Https \o domain \o <<"/">> \o href

\* The emails a page of the site can show.
PageEmails == {"info@x.com", "zeta@x.com"}

\* A loop that goes on while the frontier has addresses.
CrawlLoopGuardNoCap == urls_to_visit # <<>>

\* email_finder.py 125: while urls_to_visit and page_count < max_pages.
CrawlLoopGuard == urls_to_visit # <<>> /\ page_count < crawl_max_pages

\* email_finder.py 152-175: the anchors of the first page, in order: the
\* address of every contact or about anchor is queued when it is neither
\* visited nor queued.  Reading contact_url before any assignment raises
\* UnboundLocalError, which ends the loop over the anchors.
RECURSIVE Enqueue(_, _, _, _, _, _)
Enqueue(queue, visited, links, domain, contact_url, added) ==
    IF links = <<>> THEN [queue |-> queue, added |-> added, raised |-> FALSE]
    ELSE IF ~IsContactAnchor(Head(links))
         THEN Enqueue(queue, visited, Tail(links), domain, contact_url, added)
         ELSE LET url == ContactUrl(Head(links), domain, contact_url)
              IN IF url = Unbound
                 THEN [queue |-> queue, added |-> added, raised |-> TRUE]
                 ELSE IF url \notin visited /\ \A i \in 1..Len(queue) : queue[i] # url
                      THEN Enqueue(Append(queue, url), visited, Tail(links), domain,
                                   url, Append(added, url))
                      ELSE Enqueue(queue, visited, Tail(links), domain, url, added)

\* email_finder.py 119: the domain of the address with its scheme.
CrawlDomain == ExtractDomain(NormalizeUrl(crawl_url))

\* email_finder.py 125-182: one turn of the loop.  An address already visited is
\* skipped (128-129); otherwise it is counted and requested.  The request fails
\* (177-179, always for an address without a scheme) and the turn ends without
\* the delay; or the page gives emails and, on the first page, anchors, and the
\* delay of line 182 follows; or an exception that is not a RequestException
\* ends the crawl (184-185).
CrawlStep ==
    /\ crawl_pc = "loop"
    /\ CrawlLoopGuard
    /\ LET current_url == Head(urls_to_visit)
           rest == Tail(urls_to_visit)
       IN IF current_url \in visited_urls
          THEN /\ urls_to_visit' = rest
               /\ UNCHANGED <<visited_urls, page_count, fetched, all_emails,
                              crawl_pc, crawl_ret, crawl_events, discovered,
                              crawl_error>>
          ELSE /\ visited_urls' = visited_urls \cup {current_url}
               /\ page_count' = page_count + 1
               /\ fetched' = Append(fetched, current_url)
               /\ \/ /\ urls_to_visit' = rest
                     /\ crawl_events' = Append(crawl_events, "fetch")
                     /\ UNCHANGED <<all_emails, crawl_pc, crawl_ret, discovered,
                                    crawl_error>>
                  \/ /\ HasScheme(current_url)
                     /\ \E found \in SUBSET PageEmails :
                          all_emails' = all_emails \cup found
                     /\ \E links \in IF page_count' = 1
                                     THEN {<<>>} \cup SeqsUpTo(Hrefs, MaxPageLinks)
                                     ELSE {<<>>} :
                          LET r == Enqueue(rest, visited_urls', links, CrawlDomain,
                                           Unbound, <<>>)
                          IN /\ urls_to_visit' = r.queue
                             /\ discovered' = discovered \o
                                   [i \in 1..Len(r.added) |->
                                       [url |-> r.added[i], page |-> page_count']]
                             /\ IF r.raised
                                THEN /\ crawl_events' = Append(crawl_events, "fetch")
                                     /\ crawl_error' = "UnboundLocalError"
                                     /\ crawl_ret' \in ListsOf(all_emails')
                                     /\ crawl_pc' = "returned"
                                ELSE /\ crawl_events' =
                                           crawl_events \o <<"fetch", "delay">>
                                     /\ UNCHANGED <<crawl_error, crawl_ret, crawl_pc>>
                  \/ /\ HasScheme(current_url)
                     /\ \E found \in SUBSET PageEmails :
                          /\ all_emails' = all_emails \cup found
                          /\ crawl_ret' \in ListsOf(all_emails')
                     /\ urls_to_visit' = rest
                     /\ crawl_events' = Append(crawl_events, "fetch")
                     /\ crawl_error' = "Exception"
                     /\ crawl_pc' = "returned"
                     /\ UNCHANGED discovered
    /\ UNCHANGED <<crawl_max_pages, crawl_url>>
    /\ UNCHANGED <<setupVars, scrollVars, linksVars, detailVars, jobVars, coordVars,
                   enrichVars, auxVars, apiVars>>

\* email_finder.py 125 and 187: the loop ends and the emails are returned.
CrawlReturn ==
    /\ crawl_pc = "loop"
    /\ ~CrawlLoopGuard
    /\ crawl_ret' \in ListsOf(all_emails)
    /\ crawl_pc' = "returned"
    /\ UNCHANGED <<crawl_max_pages, crawl_url, urls_to_visit, visited_urls,
                   page_count, fetched, all_emails, crawl_events, discovered,
                   crawl_error>>
    /\ UNCHANGED <<setupVars, scrollVars, linksVars, detailVars, jobVars, coordVars,
                   enrichVars, auxVars, apiVars>>

\* email_finder.py 111-123: the frontier gets the address as it was given
\* (113), before the scheme is added (116-117).
CrawlInit ==
    /\ crawl_max_pages \in 1..MaxPages
    /\ crawl_url \in RootUrls
    /\ urls_to_visit = <<crawl_url>>
    /\ visited_urls = {}
    /\ page_count = 0
    /\ fetched = <<>>
    /\ all_emails = {}
    /\ crawl_events = <<>>
    /\ discovered = <<>>
    /\ crawl_error = "none"
    /\ crawl_pc = "loop"
    /\ crawl_ret = <<>>

CrawlIdle ==
    /\ crawl_max_pages = 1
    /\ crawl_url = <<>>
    /\ urls_to_visit = <<>>
    /\ visited_urls = {}
    /\ page_count = 0
    /\ fetched = <<>>
    /\ all_emails = {}
    /\ crawl_events = <<>>
    /\ discovered = <<>>
    /\ crawl_error = "none"
    /\ crawl_pc = "idle"
    /\ crawl_ret = <<>>

CrawlNext == CrawlStep \/ CrawlReturn

\* C17: scrape_website_for_emails with max_pages = N requests at most N
\* addresses, all different, whatever the size of the frontier, and never
\* requests an address that is already in the visited set.
C17_AtMostMaxPages ==
    /\ Len(fetched) <= crawl_max_pages
    /\ \A i, j \in 1..Len(fetched) : fetched[i] = fetched[j] => i = j
    /\ visited_urls = {fetched[i] : i \in 1..Len(fetched)}
    /\ page_count = Len(fetched)

\* The crawl ended with as many requests as max_pages and addresses left in the
\* frontier.
C17_Witness ==
    /\ crawl_pc = "returned"
    /\ crawl_max_pages = 2
    /\ Len(fetched) = 2
    /\ Len(urls_to_visit) >= 2

\* C23: when the website given has no scheme, the first address requested is
\* the address with the scheme added.
C23_FirstFetchNormalized ==
    (~HasScheme(crawl_url) /\ fetched # <<>>) => fetched[1] = NormalizeUrl(crawl_url)

\* C24: link discovery runs only while the first page is processed and adds at
\* most one address to the frontier; later pages add nothing.
C24_AtMostOneDiscovered ==
    /\ Len(discovered) <= 1
    /\ \A i \in 1..Len(discovered) : discovered[i].page = 1

\* What the code keeps of C24: addresses are discovered on the first page only.
C24_FirstPageOnly ==
    \A i \in 1..Len(discovered) : discovered[i].page = 1

\* C25: every address queued or requested after the root is on the root's
\* domain, an anchor to another domain (one whose domain contains the root
\* domain included) is neither queued nor requested, and such an anchor does
\* not stop the crawl.
C25_SameDomainOnly ==
    /\ \A i \in 1..Len(discovered) : ExtractDomain(discovered[i].url) = CrawlDomain
    /\ \A i \in 2..Len(fetched) : ExtractDomain(fetched[i]) = CrawlDomain
    /\ \A i \in 1..Len(urls_to_visit) : ExtractDomain(urls_to_visit[i]) = CrawlDomain
    /\ crawl_error # "UnboundLocalError"

\* C26: between any two consecutive requests there is a delay, also when the
\* earlier request failed.
C26_DelayBetweenFetches ==
    \A i \in 1..(Len(crawl_events) - 1) :
        ~(crawl_events[i] = "fetch" /\ crawl_events[i + 1] = "fetch")

(***************************************************************************)
(* handle_captcha (maps_scraper.py 203-248)                                *)
(***************************************************************************)

captcha_selectors ==
    << "iframe[src*='recaptcha']", "div.recaptcha-checkbox-border",
       "div[data-callback='onRecaptchaSuccess']", "#captcha-form",
       "form[action*='challenge']" >>

\* Line 210: the first screenshot.  When it raises, the handler of line 246
\* returns False.
CaptchaStart ==
    /\ cap_pc = "start"
    /\ \E ok \in BOOLEAN :
          IF ok
          THEN cap_pc' = "loop" /\ cap_ret' = cap_ret
          ELSE cap_pc' = "returned" /\ cap_ret' = FALSE
    /\ UNCHANGED <<cap_idx, cap_waits, cap_rechecks>>
    /\ UNCHANGED <<setupVars, scrollVars, linksVars, detailVars, jobVars, coordVars,
                   crawlVars, enrichVars, registryVars, apiVars>>

\* Lines 221-224 and 242-243: one selector is looked up.  Nothing displayed, or
\* a browser call that raises (the handler of line 242 only logs), leads to the
\* next selector.
CaptchaCheck ==
    /\ cap_pc = "loop"
    /\ cap_idx <= Len(captcha_selectors)
    /\ \E outcome \in {"absent", "error", "shown"} :
          IF outcome = "shown"
          THEN cap_pc' = "found" /\ cap_idx' = cap_idx
          ELSE cap_pc' = "loop" /\ cap_idx' = cap_idx + 1
    /\ UNCHANGED <<cap_waits, cap_rechecks, cap_ret>>
    /\ UNCHANGED <<setupVars, scrollVars, linksVars, detailVars, jobVars, coordVars,
                   crawlVars, enrichVars, registryVars, apiVars>>

\* Lines 225-233: the second screenshot, then the wait of 30 seconds.  A failed
\* screenshot is caught at line 242 and the loop goes on.
CaptchaWait ==
    /\ cap_pc = "found"
    /\ \E ok \in BOOLEAN :
          IF ok
          THEN /\ cap_waits' = Append(cap_waits, cap_idx)
               /\ cap_pc' = "recheck"
               /\ cap_idx' = cap_idx
          ELSE /\ cap_waits' = cap_waits
               /\ cap_pc' = "loop"
               /\ cap_idx' = cap_idx + 1
    /\ UNCHANGED <<cap_rechecks, cap_ret>>
    /\ UNCHANGED <<setupVars, scrollVars, linksVars, detailVars, jobVars, coordVars,
                   crawlVars, enrichVars, registryVars, apiVars>>

\* Lines 236-241: the re-check, then return True whatever it found.  A re-check
\* that raises is caught at line 242 as well, and the loop goes on with the next
\* selector.
CaptchaRecheck ==
    /\ cap_pc = "recheck"
    /\ cap_rechecks' = cap_rechecks + 1
    /\ \E ok \in BOOLEAN :
          IF ok
          THEN cap_pc' = "returned" /\ cap_ret' = TRUE /\ cap_idx' = cap_idx
          ELSE cap_pc' = "loop" /\ cap_ret' = cap_ret /\ cap_idx' = cap_idx + 1
    /\ UNCHANGED cap_waits
    /\ UNCHANGED <<setupVars, scrollVars, linksVars, detailVars, jobVars, coordVars,
                   crawlVars, enrichVars, registryVars, apiVars>>

\* Line 245: no selector is left.
CaptchaReturnFalse ==
    /\ cap_pc = "loop"
    /\ cap_idx > Len(captcha_selectors)
    /\ cap_pc' = "returned"
    /\ cap_ret' = FALSE
    /\ UNCHANGED <<cap_idx, cap_waits, cap_rechecks>>
    /\ UNCHANGED <<setupVars, scrollVars, linksVars, detailVars, jobVars, coordVars,
                   crawlVars, enrichVars, registryVars, apiVars>>

CaptchaInit ==
    /\ cap_idx = 1
    /\ cap_waits = <<>>
    /\ cap_rechecks = 0
    /\ cap_pc = "start"
    /\ cap_ret = FALSE

CaptchaIdle ==
    /\ cap_idx = 0
    /\ cap_waits = <<>>
    /\ cap_rechecks = 0
    /\ cap_pc = "idle"
    /\ cap_ret = FALSE

CaptchaNext ==
    \/ CaptchaStart
    \/ CaptchaCheck
    \/ CaptchaWait
    \/ CaptchaRecheck
    \/ CaptchaReturnFalse

\* C28: one call of handle_captcha waits the 30 seconds at most once, re-checks
\* at most once and returns without raising, also when a browser call fails
\* during the detection or during the re-check.
C28_WaitsAtMostOnce ==
    /\ Len(cap_waits) <= 1
    /\ cap_rechecks <= 1
    /\ cap_pc # "raised"

\* The part of C28 that the code keeps: no exception leaves the call, every wait
\* is followed by at most one re-check, and no selector is waited for twice.
C28_NeverRaises ==
    /\ cap_pc # "raised"
    /\ cap_rechecks <= Len(cap_waits)
    /\ \A i, j \in 1..Len(cap_waits) : i < j => cap_waits[i] < cap_waits[j]

(***************************************************************************)
(* The registry jobs_store under several jobs (main.py 90, 112-121,        *)
(* 150-157, 204-238, 246-277)                                              *)
(***************************************************************************)

MaxClock == 2

Jobs == {1, 2}

\* The seconds datetime.now() can show; job_id is "job_" followed by the second
\* of the submission (line 250), so an identifier is a second.
JobIds == 0 .. MaxClock

NoEntry == [status |-> "absent", progress |-> 0, writers |-> {}]

\* jobs_store[job_id] = {...}: the entry is replaced.  writers is history: the
\* jobs that have written under this identifier.
RegReplace(id, j, status) ==
    [reg_store EXCEPT ![id] = [status |-> status, progress |-> 0,
                               writers |-> reg_store[id].writers \cup {j}]]

\* jobs_store[job_id][key] = value: the entry found under the identifier is
\* changed in place.
RegMutate(id, j, status, progress) ==
    [reg_store EXCEPT ![id] = [status |-> status, progress |-> progress,
                               writers |-> reg_store[id].writers \cup {j}]]

\* The clock reaches the next second.
RegTick ==
    /\ reg_clock < MaxClock
    /\ reg_clock' = reg_clock + 1
    /\ UNCHANGED <<reg_id, reg_store, reg_pc>>
    /\ UNCHANGED <<setupVars, scrollVars, linksVars, detailVars, jobVars, coordVars,
                   crawlVars, enrichVars, captchaVars, apiVars>>

\* start_scraper (246-277): the identifier is the current second, the task is
\* scheduled and the queued entry is stored under the identifier.
RegSubmit(j) ==
    /\ reg_pc[j] = "new"
    /\ reg_id' = [reg_id EXCEPT ![j] = reg_clock]
    /\ reg_store' = RegReplace(reg_clock, j, "queued")
    /\ reg_pc' = [reg_pc EXCEPT ![j] = "queued"]
    /\ UNCHANGED reg_clock
    /\ UNCHANGED <<setupVars, scrollVars, linksVars, detailVars, jobVars, coordVars,
                   crawlVars, enrichVars, captchaVars, apiVars>>

\* scrape_task, lines 112-121: the running entry.
RegRun(j) ==
    /\ reg_pc[j] = "queued"
    /\ reg_store' = RegReplace(reg_id[j], j, "running")
    /\ reg_pc' = [reg_pc EXCEPT ![j] = "running"]
    /\ UNCHANGED <<reg_clock, reg_id>>
    /\ UNCHANGED <<setupVars, scrollVars, linksVars, detailVars, jobVars, coordVars,
                   crawlVars, enrichVars, captchaVars, apiVars>>

\* Lines 150-151, then 156-157: progress 0.1 before scrape_businesses, 0.4 after
\* it (in tenths).
RegProgress(j) ==
    /\ reg_pc[j] \in {"running", "scraping"}
    /\ LET p == IF reg_pc[j] = "running" THEN 1 ELSE 4
       IN  reg_store' = RegMutate(reg_id[j], j, reg_store[reg_id[j]].status, p)
    /\ reg_pc' = [reg_pc EXCEPT ![j] = IF reg_pc[j] = "running" THEN "scraping"
                                                               ELSE "found"]
    /\ UNCHANGED <<reg_clock, reg_id>>
    /\ UNCHANGED <<setupVars, scrollVars, linksVars, detailVars, jobVars, coordVars,
                   crawlVars, enrichVars, captchaVars, apiVars>>

\* The end of the task: completed (205-209) after the results, failed in place
\* (222-225), or the failed entry of the outer handler (231-238).
RegFinish(j) ==
    /\ reg_pc[j] \in {"running", "scraping", "found"}
    /\ \E outcome \in {"completed", "failed", "outer"} :
          /\ outcome = "completed" => reg_pc[j] = "found"
          /\ reg_store' =
              CASE outcome = "completed" -> RegMutate(reg_id[j], j, "completed", 10)
                [] outcome = "failed"    -> RegMutate(reg_id[j], j, "failed", 0)
                [] outcome = "outer"     -> RegReplace(reg_id[j], j, "failed")
    /\ reg_pc' = [reg_pc EXCEPT ![j] = "done"]
    /\ UNCHANGED <<reg_clock, reg_id>>
    /\ UNCHANGED <<setupVars, scrollVars, linksVars, detailVars, jobVars, coordVars,
                   crawlVars, enrichVars, captchaVars, apiVars>>

RegistryInit ==
    /\ reg_clock = 0
    /\ reg_id = [j \in Jobs |-> 0]
    /\ reg_store = [id \in JobIds |-> NoEntry]
    /\ reg_pc = [j \in Jobs |-> "new"]

RegistryIdle ==
    /\ reg_clock = 0
    /\ reg_id = <<>>
    /\ reg_store = <<>>
    /\ reg_pc = <<>>

RegistryNext ==
    \/ RegTick
    \/ \E j \in Jobs : RegSubmit(j)
    \/ \E j \in Jobs : RegRun(j)
    \/ \E j \in Jobs : RegProgress(j)
    \/ \E j \in Jobs : RegFinish(j)

Submitted(j) == reg_pc[j] # "new"

\* C21: a job writes only the entry under its own identifier, and the entries
\* of two different jobs are different entries: no entry of the registry has
\* been written by more than one job, also when two jobs are submitted within
\* the same second.
C21_OwnEntryOnly ==
    \A i \in Jobs : Submitted(i) => reg_store[reg_id[i]].writers = {i}

\* What the code does keep: a job writes under no identifier but its own.
C21_WritesUnderOwnId ==
    \A id \in JobIds : \A j \in reg_store[id].writers : Submitted(j) /\ reg_id[j] = id

(***************************************************************************)
(* download_job_results (main.py 292-349)                                  *)
(***************************************************************************)

\* The jobs of the registry and the jobs asked for.
StoredJobs == {"job_1"}

RequestedJobs == {"job_1", "job_2"}

\* The formats asked for.
RequestedFormats == {"json", "JSON", "csv", "Csv", "excel", "xml"}

\* The entries scrape_task and start_scraper leave in the registry: queued
\* (264-271), running (114-121), completed with its file (205-209), failed
\* (222-238), and failed after completed, which keeps results_file.
DownloadEntries ==
    {[status |-> "queued", results_file |-> "None"],
     [status |-> "running", results_file |-> "None"],
     [status |-> "completed", results_file |-> "file"],
     [status |-> "failed", results_file |-> "None"],
     [status |-> "failed", results_file |-> "file"]}

NoAnswer == [code |-> 0, detail |-> "none"]

\* main.py 304-349: one request.  The handler reads the registry and writes
\* nothing to it.
Download ==
    /\ dl_pc = "request"
    /\ \E generated \in BOOLEAN :
         dl_answer' =
            IF dl_job \in DOMAIN dl_store
            THEN DownloadAnswer(dl_format, TRUE, dl_store[dl_job], dl_json, generated)
            ELSE DownloadAnswer(dl_format, FALSE, [status |-> "none",
                                                   results_file |-> "None"],
                                dl_json, generated)
    /\ dl_pc' = "answered"
    /\ UNCHANGED <<dl_store, dl_json, dl_job, dl_format>>
    /\ UNCHANGED <<setupVars, scrollVars, linksVars, detailVars, jobVars, coordVars,
                   crawlVars, enrichVars, auxVars, progressVars>>

DownloadInit ==
    /\ dl_store \in [StoredJobs -> DownloadEntries]
    /\ dl_json \in BOOLEAN
    /\ dl_job \in RequestedJobs
    /\ dl_format \in RequestedFormats
    /\ dl_answer = NoAnswer
    /\ dl_pc = "request"

DownloadIdle ==
    /\ dl_store = <<>>
    /\ dl_json = FALSE
    /\ dl_job = "none"
    /\ dl_format = "none"
    /\ dl_answer = NoAnswer
    /\ dl_pc = "idle"

\* C36: download_job_results returns a file only for a job whose status is
\* completed and whose results_file is set; an unsupported format answers 400,
\* an unknown job 404, a job that is queued, running or failed 400; and no
\* request changes the registry.
C36_DownloadAnswers ==
    /\ [](dl_pc = "answered" =>
            LET known == dl_job \in DOMAIN dl_store
                supported == FormatLower(dl_format) \in SupportedFormats
            IN /\ dl_answer.code = 200 =>
                    /\ known
                    /\ dl_store[dl_job].status = "completed"
                    /\ dl_store[dl_job].results_file # "None"
               /\ ~supported => dl_answer.code = 400
               /\ (supported /\ ~known) => dl_answer.code = 404
               /\ (supported /\ known /\
                   dl_store[dl_job].status \in {"queued", "running", "failed"})
                      => dl_answer.code = 400)
    /\ [][dl_store' = dl_store]_vars

\* C36 witness: a job that failed after it was completed still names its
\* results file, which exists; the request is answered 400.
C36_Witness ==
    /\ dl_pc = "answered"
    /\ dl_job \in DOMAIN dl_store
    /\ dl_store[dl_job] = [status |-> "failed", results_file |-> "file"]
    /\ dl_json
    /\ dl_format = "JSON"
    /\ dl_answer.code = 400

(***************************************************************************)
(* The progress scrape_task writes to the registry (main.py 114-225)       *)
(***************************************************************************)

\* The most records scrape_businesses returns.
MaxRecords == 3

\* Progress is kept exactly, in units of 1 / (100 * len(results)), and of
\* 1 / 100 when there is no record.
Hundredths(h) == h * (IF pg_n = 0 THEN 1 ELSE pg_n)

\* The progress None of a failed job.
NoProgress == 0 - 1

\* A progress that restarts for the loop over the records.
EmailProgressFromZero(i) == 30 * i

\* main.py 166: 0.5 + (0.3 * (i / len(results))).
EmailProgress(i) == Hundredths(50) + 30 * i

\* main.py 188: 0.8 + (0.15 * (i / len(results))).
TemplateProgress(i) == Hundredths(80) + 15 * i

\* One write of status and progress; the other keys are left out.
PgWrite(status, progress) ==
    /\ pg_entry' = [status |-> status, progress |-> progress]
    /\ pg_writes' = Append(pg_writes, [status |-> status, progress |-> progress])

\* main.py 112-121: the running entry.
PgStart ==
    /\ pg_pc = "queued"
    /\ PgWrite("running", Hundredths(0))
    /\ pg_pc' = "running"
    /\ UNCHANGED <<pg_n, pg_emails, pg_templates, pg_i>>
    /\ UNCHANGED <<setupVars, scrollVars, linksVars, detailVars, jobVars, coordVars,
                   crawlVars, enrichVars, auxVars, downloadVars>>

\* main.py 123-151: the Chrome check and the acquisition, which can raise, then
\* progress 0.1.
PgScrapeBegin ==
    /\ pg_pc = "running"
    /\ \/ PgWrite(pg_entry.status, Hundredths(10)) /\ pg_pc' = "scraping"
       \/ UNCHANGED <<pg_entry, pg_writes>> /\ pg_pc' = "handler"
    /\ UNCHANGED <<pg_n, pg_emails, pg_templates, pg_i>>
    /\ UNCHANGED <<setupVars, scrollVars, linksVars, detailVars, jobVars, coordVars,
                   crawlVars, enrichVars, auxVars, downloadVars>>

\* main.py 153-157: scrape_businesses returned, progress 0.4.
PgScrapeEnd ==
    /\ pg_pc = "scraping"
    /\ PgWrite(pg_entry.status, Hundredths(40))
    /\ pg_pc' = "found"
    /\ UNCHANGED <<pg_n, pg_emails, pg_templates, pg_i>>
    /\ UNCHANGED <<setupVars, scrollVars, linksVars, detailVars, jobVars, coordVars,
                   crawlVars, enrichVars, auxVars, downloadVars>>

\* main.py 159-162: with include_emails and records, progress 0.5.
PgEmails ==
    /\ pg_pc = "found"
    /\ IF pg_emails /\ pg_n > 0
       THEN PgWrite(pg_entry.status, Hundredths(50)) /\ pg_pc' = "email_loop"
       ELSE UNCHANGED <<pg_entry, pg_writes>> /\ pg_pc' = "templates"
    /\ pg_i' = 0
    /\ UNCHANGED <<pg_n, pg_emails, pg_templates>>
    /\ UNCHANGED <<setupVars, scrollVars, linksVars, detailVars, jobVars, coordVars,
                   crawlVars, enrichVars, auxVars, downloadVars>>

\* main.py 164-179: one record of the loop over the emails.
PgEmailRecord ==
    /\ pg_pc = "email_loop"
    /\ pg_i < pg_n
    /\ PgWrite(pg_entry.status, EmailProgress(pg_i))
    /\ pg_i' = pg_i + 1
    /\ pg_pc' = IF pg_i + 1 < pg_n THEN "email_loop" ELSE "templates"
    /\ UNCHANGED <<pg_n, pg_emails, pg_templates>>
    /\ UNCHANGED <<setupVars, scrollVars, linksVars, detailVars, jobVars, coordVars,
                   crawlVars, enrichVars, auxVars, downloadVars>>

\* main.py 181-184: with include_email_templates and records, progress 0.8.
PgTemplates ==
    /\ pg_pc = "templates"
    /\ IF pg_templates /\ pg_n > 0
       THEN PgWrite(pg_entry.status, Hundredths(80)) /\ pg_pc' = "template_loop"
       ELSE UNCHANGED <<pg_entry, pg_writes>> /\ pg_pc' = "save"
    /\ pg_i' = 0
    /\ UNCHANGED <<pg_n, pg_emails, pg_templates>>
    /\ UNCHANGED <<setupVars, scrollVars, linksVars, detailVars, jobVars, coordVars,
                   crawlVars, enrichVars, auxVars, downloadVars>>

\* main.py 186-193: one record of the loop over the templates; the template
\* can raise after the write.
PgTemplateRecord ==
    /\ pg_pc = "template_loop"
    /\ pg_i < pg_n
    /\ PgWrite(pg_entry.status, TemplateProgress(pg_i))
    /\ pg_i' = pg_i + 1
    /\ \/ pg_pc' = IF pg_i + 1 < pg_n THEN "template_loop" ELSE "save"
       \/ pg_pc' = "handler"
    /\ UNCHANGED <<pg_n, pg_emails, pg_templates>>
    /\ UNCHANGED <<setupVars, scrollVars, linksVars, detailVars, jobVars, coordVars,
                   crawlVars, enrichVars, auxVars, downloadVars>>

\* main.py 195-209: the files, then completed with progress 1.0.
PgComplete ==
    /\ pg_pc = "save"
    /\ PgWrite("completed", Hundredths(100))
    /\ pg_pc' = "exit"
    /\ UNCHANGED <<pg_n, pg_emails, pg_templates, pg_i>>
    /\ UNCHANGED <<setupVars, scrollVars, linksVars, detailVars, jobVars, coordVars,
                   crawlVars, enrichVars, auxVars, downloadVars>>

\* maps_scraper.py 985-994: the session is released; quit can raise.
PgExit ==
    /\ pg_pc = "exit"
    /\ pg_pc' \in {"done", "handler"}
    /\ UNCHANGED <<pg_n, pg_emails, pg_templates, pg_i, pg_entry, pg_writes>>
    /\ UNCHANGED <<setupVars, scrollVars, linksVars, detailVars, jobVars, coordVars,
                   crawlVars, enrichVars, auxVars, downloadVars>>

\* main.py 211-225: failed, progress None.
PgHandler ==
    /\ pg_pc = "handler"
    /\ PgWrite("failed", NoProgress)
    /\ pg_pc' = "done"
    /\ UNCHANGED <<pg_n, pg_emails, pg_templates, pg_i>>
    /\ UNCHANGED <<setupVars, scrollVars, linksVars, detailVars, jobVars, coordVars,
                   crawlVars, enrichVars, auxVars, downloadVars>>

\* main.py 263-271: the queued entry, progress 0.0.
ProgressInit ==
    /\ pg_n \in 0..MaxRecords
    /\ pg_emails \in BOOLEAN
    /\ pg_templates \in BOOLEAN
    /\ pg_pc = "queued"
    /\ pg_i = 0
    /\ pg_entry = [status |-> "queued", progress |-> 0]
    /\ pg_writes = <<[status |-> "queued", progress |-> 0]>>

ProgressIdle ==
    /\ pg_n = 0
    /\ pg_emails = FALSE
    /\ pg_templates = FALSE
    /\ pg_pc = "idle"
    /\ pg_i = 0
    /\ pg_entry = [status |-> "none", progress |-> 0]
    /\ pg_writes = <<>>

ProgressNext ==
    \/ PgStart
    \/ PgScrapeBegin
    \/ PgScrapeEnd
    \/ PgEmails
    \/ PgEmailRecord
    \/ PgTemplates
    \/ PgTemplateRecord
    \/ PgComplete
    \/ PgExit
    \/ PgHandler

ApiIdle == DownloadIdle /\ ProgressIdle

AuxIdle == CaptchaIdle /\ RegistryIdle

UtilIdle == CoordsIdle /\ CrawlIdle /\ EnrichIdle /\ AuxIdle /\ ApiIdle

(***************************************************************************)
(* Specifications                                                          *)
(***************************************************************************)

InitSetup == SetupInit /\ ScrollIdle /\ LinksIdle /\ DetailIdle /\ JobIdle /\ UtilIdle

SpecSetup == InitSetup /\ [][SetupNext]_vars

InitScroll == ScrollInit /\ SetupIdle /\ LinksIdle /\ DetailIdle /\ JobIdle /\ UtilIdle

SpecScroll == InitScroll /\ [][ScrollNext]_vars

\* The method runs to its end: no step of it waits for another process.
SpecScrollFair == SpecScroll /\ WF_vars(ScrollNext)

InitLinks == LinksInit /\ SetupIdle /\ ScrollIdle /\ DetailIdle /\ JobIdle /\ UtilIdle

SpecLinks == InitLinks /\ [][LinksNext]_vars

InitDetail == DetailInit /\ SetupIdle /\ ScrollIdle /\ LinksIdle /\ JobIdle /\ UtilIdle

SpecDetail == InitDetail /\ [][DetailNext]_vars

Init == JobInit /\ SetupIdle /\ ScrollIdle /\ LinksIdle /\ DetailIdle /\ UtilIdle

Spec == Init /\ [][Next]_vars

\* Every call of the task returns or times out: a step that can be taken is
\* taken.
SpecFair == Init /\ [][Next]_vars /\ WF_vars(Next)

InitCoords ==
    CoordsInit /\ SetupIdle /\ ScrollIdle /\ LinksIdle /\ DetailIdle /\ JobIdle
               /\ CrawlIdle /\ EnrichIdle /\ AuxIdle /\ ApiIdle

SpecCoords == InitCoords /\ [][CoordsExtract]_vars

InitCrawl ==
    CrawlInit /\ SetupIdle /\ ScrollIdle /\ LinksIdle /\ DetailIdle /\ JobIdle
              /\ CoordsIdle /\ EnrichIdle /\ AuxIdle /\ ApiIdle

SpecCrawl == InitCrawl /\ [][CrawlNext]_vars

InitEnrich ==
    EnrichInit /\ SetupIdle /\ ScrollIdle /\ LinksIdle /\ DetailIdle /\ JobIdle
               /\ CoordsIdle /\ CrawlIdle /\ AuxIdle /\ ApiIdle

SpecEnrich == InitEnrich /\ [][EnrichNext]_vars

InitCaptcha ==
    CaptchaInit /\ SetupIdle /\ ScrollIdle /\ LinksIdle /\ DetailIdle /\ JobIdle
                /\ CoordsIdle /\ CrawlIdle /\ EnrichIdle /\ RegistryIdle /\ ApiIdle

SpecCaptcha == InitCaptcha /\ [][CaptchaNext]_vars

InitRegistry ==
    RegistryInit /\ SetupIdle /\ ScrollIdle /\ LinksIdle /\ DetailIdle /\ JobIdle
                 /\ CoordsIdle /\ CrawlIdle /\ EnrichIdle /\ CaptchaIdle /\ ApiIdle

SpecRegistry == InitRegistry /\ [][RegistryNext]_vars

InitDownload ==
    DownloadInit /\ SetupIdle /\ ScrollIdle /\ LinksIdle /\ DetailIdle /\ JobIdle
                 /\ CoordsIdle /\ CrawlIdle /\ EnrichIdle /\ AuxIdle /\ ProgressIdle

SpecDownload == InitDownload /\ [][Download]_vars

InitProgress ==
    ProgressInit /\ SetupIdle /\ ScrollIdle /\ LinksIdle /\ DetailIdle /\ JobIdle
                 /\ CoordsIdle /\ CrawlIdle /\ EnrichIdle /\ AuxIdle /\ DownloadIdle

SpecProgress == InitProgress /\ [][ProgressNext]_vars

=============================================================================
